---------------------------- MODULE Spec2Model ----------------------------
(***************************************************************************)
(* A model of nlogo.py: stepped and enumerated value axes, the Cartesian   *)
(* expansion of an Experiment (uniqueSettings), Batch construction and its *)
(* naming check, the splitting of experiments over XML documents, and the  *)
(* resolution of Sample bounds.                                            *)
(*                                                                         *)
(* Strings that the code builds with "%0*d" and compares character by      *)
(* character (os.path.commonprefix) are sequences of one-character strings.*)
(* Numbers of a stepped axis are integers (a unit of the model stands for  *)
(* any float that float arithmetic adds exactly).                          *)
(***************************************************************************)
EXTENDS Integers, Sequences, FiniteSets, TLC

VARIABLES
    sv,          \* SteppedValue under construction (SpecStepped)
    expt,        \* the parent Experiment of uniqueSettings
    opts,        \* the Options the operations read
    us,          \* the frame of a running uniqueSettings call
    experiments, \* the list of Experiments a call returned / Batch is given
    heap,        \* list objects: ref -> the enumerated_values list it holds
    batch,       \* the Batch object under construction and its outcome
    written,     \* outcome of writeExperimentsToFile
    samples,     \* the Sample objects, by index
    stack,       \* call stack of minimumValue / maximumValue / sample
    call,        \* the top-level Sample call in progress and its outcome
    ws,          \* where the loops of withSamples stand
    grid         \* the scripts saved, the scheduler's queue and the sleeper

vars == <<sv, expt, opts, us, experiments, heap, batch, written,
          samples, stack, call, ws, grid>>

--------------------------------------------------------------------------
(* Bounds of the model *)

MaxFirst == 3
MaxStep == 2
MaxExpts == 12
MaxBatchMax == 10
MaxBatchSize == 5
MaxCard == 2
MaxReps == 2
NSamples == 3
MaxMetrics == 2
MaxRuns == 5
MaxTaskLimit == 3
MaxChildren == 2
MaxAxes == 1
MaxObjects == 9

--------------------------------------------------------------------------
(* Text helpers *)

Range(s) == {s[k] : k \in DOMAIN s}

DigitChar(d) == <<"0", "1", "2", "3", "4", "5", "6", "7", "8", "9">>[d + 1]

\* "%d" % n for n >= 0
RECURSIVE DecStr(_)
DecStr(n) == IF n < 10 THEN <<DigitChar(n)>>
             ELSE DecStr(n \div 10) \o <<DigitChar(n % 10)>>

Fill(c, k) == [j \in 1..(IF k > 0 THEN k ELSE 0) |-> c]

\* "%0*d" % (w, i): zero-padded to at least w characters
ZeroPad(w, i) == Fill("0", w - Len(DecStr(i))) \o DecStr(i)

\* "%*d" % (w, i): space-padded to at least w characters
SpacePad(w, i) == Fill(" ", w - Len(DecStr(i))) \o DecStr(i)

Abs(x) == IF x < 0 THEN -x ELSE x

\* math.ceil(a / b) for a >= 0, b >= 1
CeilDiv(a, b) == (a + b - 1) \div b

--------------------------------------------------------------------------
(* SteppedValue *)

\* SteppedRaises without the test of step > 0 with first > last
SteppedRaises_AcceptsFirstPastLast(first, step, last) ==
    \/ step < 0 /\ first < last
    \/ step = 0 /\ first # last

\* The direction tests of SteppedValue.__init__: TRUE when it raises ValueError
SteppedRaises(first, step, last) ==
    \/ step < 0 /\ first < last
    \/ step > 0 /\ first > last
    \/ step = 0 /\ first # last

\* while self.values[-1] < self.last: self.values.append(self.step + self.values[-1])
RECURSIVE SteppedLoop(_, _, _)
SteppedLoop(values, step, last) ==
    IF values[Len(values)] < last
    THEN SteppedLoop(Append(values, step + values[Len(values)]), step, last)
    ELSE values

\* The value list SteppedValue.__init__ materializes (when it does not raise)
SteppedValues(first, step, last) == SteppedLoop(<<first>>, step, last)

SteppedValue(variable, first, step, last) ==
    [variable |-> variable, first |-> first, step |-> step, last |-> last,
     values |-> SteppedValues(first, step, last)]

\* SteppedValue.getNValues / EnumeratedValue.getNValues
GetNValues(param) == Len(param.values)

\* EnumeratedValue.__init__: a list is kept as it is, a single value is wrapped
EnumeratedValue(variable, values) ==
    [variable |-> variable,
     values |-> IF values.t = "list" THEN values.v ELSE <<values>>]

\* Values of the model: a number, a text, or (as constructor argument) a list
Num(x) == [t |-> "num", v |-> x]
Str(s) == [t |-> "str", v |-> s]
List(l) == [t |-> "list", v |-> l]

--------------------------------------------------------------------------
(* Experiment objects and the lists they hold *)

\* List objects live in heap (a sequence of lists); a reference is an index.
\* The default arguments of Experiment.__init__ (stepped_values = [],
\* enumerated_values = [], metric_labels = []) are three list objects made once,
\* when the class is defined, and shared by every call that omits them.
DefaultSteppedRef == 1
DefaultEnumeratedRef == 2
DefaultLabelsRef == 3

InitialHeap == <<<< >>, << >>, << >>>>

\* The final code of an Experiment is a sequence of blocks: code of the user,
\* and the block finallySaveParamMetrics writes, which begins with
\* Experiment.param_comment and names the file it saves to
UserCode == [code |-> "user", file |-> << >>]
SaveCode(file_name) == [code |-> "save", file |-> file_name]

\* Experiment.__init__; setup, go, timeLimit, exitCondition, sequentialRunOrder
\* and runMetricsEveryStep are copied from the arguments and read by no
\* operation of the model, so they are left out of the record.
\* Returns the new object and the heap (the labels may be a fresh copy).
Experiment(h, name, final, metrics, stepped, enumerated, repetitions, results, labels) ==
    LET fresh == Len(h[labels]) # Len(h[metrics])
        h2 == IF fresh THEN Append(h, h[metrics]) ELSE h
    IN [heap |-> h2,
        e |-> [name |-> name, final |-> final, metrics |-> metrics,
               metricLabels |-> IF fresh THEN Len(h2) ELSE labels,
               steppedValueSet |-> stepped, enumeratedValueSet |-> enumerated,
               repetitions |-> repetitions, results |-> results,
               addedFinalParametrics |-> \E k \in DOMAIN final : final[k].code = "save"]]

\* Product of the cardinalities of a list of axes
RECURSIVE NValuesProduct(_)
NValuesProduct(axes) ==
    IF axes = << >> THEN 1
    ELSE GetNValues(axes[1]) * NValuesProduct(Tail(axes))

\* Experiment.getNRuns
GetNRuns(h, e) ==
    e.repetitions * NValuesProduct(h[e.steppedValueSet])
                  * NValuesProduct(h[e.enumeratedValueSet])

--------------------------------------------------------------------------
(* Batch *)

\* Batch.n_digits: len("%d" % n)
N_digits(n) == Len(DecStr(n))

\* os.path.commonprefix of two strings
CommonPrefix(a, b) ==
    LET m == IF Len(a) < Len(b) THEN Len(a) ELSE Len(b)
        agree == {k \in 0..m : \A j \in 1..k : a[j] = b[j]}
        n == CHOOSE k \in agree : \A j \in agree : j <= k
    IN SubSeq(a, 1, n)

\* The common prefix the loop of Batch.__init__ accumulates, starting from init
RECURSIVE CommonPrefixAll(_, _)
CommonPrefixAll(names, init) ==
    IF names = << >> THEN init
    ELSE CommonPrefixAll(Tail(names), CommonPrefix(names[1], init))

\* What `raise NLogoError(message, bug = ...)` raises. NLogoError.__init__
\* begins with Exception.__init__(message): the unbound method is given the
\* message as its self, which is a TypeError raised inside the constructor,
\* before self.bug is assigned; that TypeError is what propagates.
NLogoError(message, bug) == [type |-> "TypeError", message |-> message, bug |-> FALSE]

NoError == [type |-> "none", message |-> "", bug |-> FALSE]

\* batch number and batch size fields of Batch.__init__
BatchCount(o, n) == IF n <= o.max_batch THEN 1 ELSE CeilDiv(n, o.batch_size)

\* Sum of getNRuns over the experiments
RECURSIVE SumNRuns(_, _)
SumNRuns(h, expts) ==
    IF expts = << >> THEN 0
    ELSE GetNRuns(h, expts[1]) + SumNRuns(h, Tail(expts))

\* Script.__init__: the fields the job array and the sleeper are written from
\* (name, gigaram, concur and time go into header lines that no operation of
\* the model reads)
Script(o, n_expt) ==
    LET need_sleeper == o.task_limit > 0 /\ o.task_limit < n_expt
    IN [n_expt |-> n_expt, need_sleeper |-> need_sleeper,
        task_size |-> IF need_sleeper THEN o.task_limit ELSE n_expt]

NoScript == [n_expt |-> 0, need_sleeper |-> FALSE, task_size |-> 0]

\* Batch.__init__: the object built and the exception raised, if any
BatchInit(o, h, expts) ==
    LET n_expt == Len(expts)
        n_expt_digits == N_digits(n_expt)
        n_batch == BatchCount(o, n_expt)
        names == [k \in 1..n_expt |-> expts[k].name]
        b0 == [n_expt |-> n_expt, n_expt_digits |-> n_expt_digits,
               task_limit |-> o.task_limit,
               n_batch |-> n_batch, n_batch_digits |-> N_digits(n_batch),
               batch_size |-> IF n_batch = 1 THEN n_expt ELSE o.batch_size,
               expt_name |-> << >>, n_runs |-> 0, error |-> NoError,
               script |-> NoScript]
    IN IF n_expt < 2
       THEN \* expts[1] is the second element
            [b0 EXCEPT !.error = [type |-> "IndexError", message |-> "", bug |-> FALSE]]
       ELSE LET expt_name == CommonPrefixAll(names, names[2])
                duplicate == \E j, k \in 1..n_expt : j < k /\ names[j] = names[k]
                missing == \E k \in 1..n_expt :
                               (expt_name \o ZeroPad(n_expt_digits, k)) \notin Range(names)
            IN IF duplicate
               THEN [b0 EXCEPT !.error = NLogoError("Duplicate experiment name", TRUE)]
               ELSE IF expt_name = << >>
               THEN [b0 EXCEPT !.n_runs = SumNRuns(h, expts),
                               !.error = NLogoError("No common experiment name nomenclature", TRUE)]
               ELSE IF missing
               THEN [b0 EXCEPT !.expt_name = expt_name, !.n_runs = SumNRuns(h, expts),
                               !.error = NLogoError("Not found expected experiment name", TRUE)]
               ELSE [b0 EXCEPT !.expt_name = expt_name, !.n_runs = SumNRuns(h, expts),
                               !.script = Script(o, n_expt)]

\* Batch.getExptIDsh: the EXPT_ID the job script prints for task number task_no
GetExptIDsh(b, task_no) == b.expt_name \o ZeroPad(b.n_expt_digits, task_no)

\* Batch.getBatchIDSh: XML and BDIR as the job script sets them for task number
\* task_no (self.xml is opts.arg_xml); BATCH_NO is TASK_NO / size, plus one
\* when the remainder is not zero
GetBatchIDSh(b, o, task_no) ==
    IF b.n_batch = 1
    THEN [XML |-> o.arg_xml, BDIR |-> <<".">>]
    ELSE LET BATCH_NO == (task_no \div b.batch_size)
                             + (IF task_no % b.batch_size > 0 THEN 1 ELSE 0)
             BATCH_ID == ZeroPad(b.n_batch_digits, BATCH_NO)
             x == SubSeq(o.arg_xml, 1, Len(o.arg_xml) - 4)
         IN [XML |-> x \o <<"-">> \o BATCH_ID \o <<".", "x", "m", "l">>,
             BDIR |-> x \o <<"-">> \o BATCH_ID]

\* Script.saveCommon: the --setup-file of the task, "$XDIR/$XML", as a path from
\* the directory the scripts are made and submitted in (XDIR is that directory
\* when xml_dir is ".", and xml_dir under it otherwise)
SetupFile(b, o, task_no) == o.xml_dir \o <<"/">> \o GetBatchIDSh(b, o, task_no).XML

\* Script.saveCommon: RDIR, the results directory the task makes, as a path
\* from the directory the scripts are made and submitted in ("." stands for
\* `pwd`)
Rdir(b, o, task_no) ==
    LET BDIR == GetBatchIDSh(b, o, task_no).BDIR
        RDIR == IF o.dir # <<".">> THEN <<".", "/">> \o o.dir \o <<"/">> \o BDIR
                ELSE <<".", "/">> \o BDIR
    IN IF o.sep_expt_dirs THEN RDIR \o <<"/">> \o GetExptIDsh(b, task_no) ELSE RDIR

--------------------------------------------------------------------------
(* Writing the experiments to XML documents *)

\* opts.xml_dir + "/" + opts.arg_xml, the file name writeExperiments passes
XmlFileName(o) == o.xml_dir \o <<"/">> \o o.arg_xml

\* The names of the experiments expts[lo:hi] (a Python slice)
SliceNames(expts, lo, hi) == [k \in 1..(hi - lo) |-> expts[lo + k].name]

\* BatchDocument with batch_min taken one experiment too far
BatchDocument_SkipsFirst(file_name, expts, o, n_batch, batch_ix) ==
    LET batch_str == ZeroPad(N_digits(n_batch), batch_ix + 1)
        batch_min == batch_ix * o.batch_size + 1
        batch_top == batch_ix * o.batch_size + o.batch_size
        batch_max == IF batch_top > Len(expts) THEN Len(expts) ELSE batch_top
    IN [file |-> SubSeq(file_name, 1, Len(file_name) - 4) \o <<"-">> \o batch_str
                     \o <<".", "x", "m", "l">>,
        expts |-> SliceNames(expts, batch_min, batch_max)]

\* One document of the batch branch: its file name and its experiments
BatchDocument(file_name, expts, o, n_batch, batch_ix) ==
    LET batch_str == ZeroPad(N_digits(n_batch), batch_ix + 1)
        batch_min == batch_ix * o.batch_size
        batch_top == batch_min + o.batch_size
        batch_max == IF batch_top > Len(expts) THEN Len(expts) ELSE batch_top
    IN [file |-> SubSeq(file_name, 1, Len(file_name) - 4) \o <<"-">> \o batch_str
                     \o <<".", "x", "m", "l">>,
        expts |-> SliceNames(expts, batch_min, batch_max)]

\* Experiment.writeExperimentsToFile. failAt = k > 0 makes the k-th io.open
\* raise IOError; failAt = 0 is a run without I/O errors. files are the
\* documents completed on disk, ret is the list the function returns.
WriteExperimentsToFile(file_name, expts, o, failAt) ==
    IF Len(expts) <= o.max_batch
    THEN IF failAt = 1
         THEN [files |-> << >>, ret |-> << >>]
         ELSE [files |-> <<[file |-> file_name,
                            expts |-> SliceNames(expts, 0, Len(expts))]>>,
               ret |-> <<file_name>>]
    ELSE LET n_batch == CeilDiv(Len(expts), o.batch_size)
             n_done == IF failAt \in 1..n_batch THEN failAt - 1 ELSE n_batch
             docs == [k \in 1..n_done |->
                         BatchDocument(file_name, expts, o, n_batch, k - 1)]
         IN [files |-> docs,
             ret |-> IF n_done < n_batch THEN << >>
                     ELSE [k \in 1..n_batch |-> docs[k].file]]

\* Documents writeExperimentsToFile opens with these inputs
DocumentCount(expts, o) ==
    IF Len(expts) <= o.max_batch THEN 1 ELSE CeilDiv(Len(expts), o.batch_size)

--------------------------------------------------------------------------
(* Options *)

\* The options as Options.__init__ leaves them when none is given on the command
\* line, except batch-max and batch-size, which each specification draws.
BaseOpts ==
    [split_reps |-> FALSE, rng_switch |-> "", rng_no_switch |-> "", rng_param |-> "",
     dir_params |-> << >>, file_params |-> << >>, add_outdir |-> FALSE,
     sep_expt_dirs |-> FALSE, max_batch |-> MaxBatchMax, batch_size |-> MaxBatchSize,
     dir |-> <<".">>, xml_dir |-> <<".">>, arg_xml |-> <<"e", ".", "x", "m", "l">>,
     task_limit |-> 0, cluster |-> "SLURM", assigned |-> {}, save_csv |-> TRUE]

\* Options.isParamSet
IsParamSet(o, param_name) ==
    IF o.rng_switch # "" /\ o.rng_switch = param_name THEN TRUE
    ELSE IF o.rng_no_switch # "" /\ o.rng_no_switch = param_name THEN TRUE
    ELSE IF param_name \in Range(o.dir_params) \/ param_name \in Range(o.file_params)
    THEN TRUE
    ELSE FALSE

--------------------------------------------------------------------------
(* Output directories and unique file names *)

\* Batch.outdir (a static method): the results directory of run expt_i of expt_n
Outdir(o, expt_name, expt_i, expt_n) ==
    LET n_batch == BatchCount(o, expt_n)
        n_batch_digits == N_digits(n_batch)
        n_expt_digits == N_digits(expt_n)
        batch_size == IF n_batch = 1 THEN expt_n ELSE o.batch_size
        batch_n == CeilDiv(expt_i, batch_size)
        x == SubSeq(o.arg_xml, 1, Len(o.arg_xml) - 4)
        expt_dir == expt_name \o <<"-">> \o ZeroPad(n_expt_digits, expt_i)
        batch_dir == x \o <<"-">> \o ZeroPad(n_batch_digits, batch_n)
    IN IF n_batch = 1
       THEN IF o.sep_expt_dirs THEN o.dir \o <<"/">> \o expt_dir ELSE o.dir
       ELSE IF o.sep_expt_dirs
            THEN o.dir \o <<"/">> \o batch_dir \o <<"/">> \o expt_dir
            ELSE o.dir \o <<"/">> \o batch_dir

\* str.rfind of a character: the last position holding c, 0 when there is none
RFind(str, c) ==
    LET at == {k \in DOMAIN str : str[k] = c}
    IN IF at = {} THEN 0 ELSE CHOOSE k \in at : \A j \in at : j <= k

\* NetlogoModel.getSetting: the setting string of a parameter of the model.
\* The model read has a parameter "f" set to "" and a parameter "g" set to "o.c".
GetSetting(parname) == IF parname = "g" THEN <<"o", ".", "c">> ELSE << >>

\* Options.getUniqueFilename; err is the exception math.log10 raises for
\* nruns - 1 <= 0
GetUniqueFilename(o, parname, name, run, nruns) ==
    IF nruns - 1 <= 0
    THEN [err |-> "ValueError", uname |-> << >>]
    ELSE LET fname == GetSetting(parname)
             nz == 1 + (N_digits(nruns - 1) - 1)
             u0 == IF o.add_outdir \/ Len(o.dir_params) = 0
                   THEN Outdir(o, name, run, nruns) \o <<"/">>
                   ELSE << >>
             basen == IF "/" \in Range(fname)
                      THEN SubSeq(fname, 1 + RFind(fname, "/"), Len(fname))
                      ELSE fname
             pref == SubSeq(basen, 1, RFind(basen, ".") - 1)
             suff == SubSeq(basen, RFind(basen, "."), Len(basen))
         IN [err |-> "none",
             uname |->
                IF fname = << >> \/ fname = <<"0">> \/ fname = <<"N", "A">>
                THEN u0 \o name \o <<"-">> \o <<parname>> \o <<"-">> \o SpacePad(nz, run)
                ELSE IF "." \in Range(basen)
                THEN u0 \o pref \o <<"-">> \o SpacePad(nz, run) \o <<".">> \o suff
                ELSE u0 \o basen \o <<"-">> \o SpacePad(nz, run)]

--------------------------------------------------------------------------
(* Experiment.uniqueSettings *)

\* counters and maxes are dictionaries keyed by variable; Python keeps the keys
\* in the order of their first insertion. Both are one list of entries here.
SetCounter(cs, variable, max) ==
    IF \E k \in DOMAIN cs : cs[k].variable = variable
    THEN [k \in DOMAIN cs |-> IF cs[k].variable = variable
                              THEN [variable |-> variable, count |-> 0, max |-> max]
                              ELSE cs[k]]
    ELSE Append(cs, [variable |-> variable, count |-> 0, max |-> max])

\* The two loops that fill counters and maxes: every stepped axis, then every
\* enumerated axis whose variable is not already set through the options
RECURSIVE FillCounters(_, _, _, _)
FillCounters(cs, o, axes, checkSet) ==
    IF axes = << >> THEN cs
    ELSE FillCounters(
            IF checkSet /\ IsParamSet(o, axes[1].variable) THEN cs
            ELSE SetCounter(cs, axes[1].variable, GetNValues(axes[1])),
            o, Tail(axes), checkSet)

\* counters[variable]
CounterOf(cs, variable) ==
    (CHOOSE k \in DOMAIN cs : cs[k].variable = variable)

\* The carry loop at the end of an iteration, from the k-th key on
RECURSIVE Carry(_, _)
Carry(cs, k) ==
    IF k > Len(cs) THEN cs
    ELSE IF cs[k].count + 1 = cs[k].max
         THEN Carry([cs EXCEPT ![k].count = 0], k + 1)
         ELSE [cs EXCEPT ![k].count = cs[k].count + 1]

\* done = all([v == 0 for v in counters.values()])
AllZero(cs) == \A k \in DOMAIN cs : cs[k].count = 0

TrueStr == Str(<<"t", "r", "u", "e">>)
FalseStr == Str(<<"f", "a", "l", "s", "e">>)

\* ValueAt ignoring the counter: always the first value of the axis
ValueAt_IgnoresCounter(param, index) ==
    IF "step" \in DOMAIN param THEN Num(param.values[1])
    ELSE param.values[1]

\* param.getValues()[index]; the numbers of a stepped axis are tagged as numbers
ValueAt(param, index) ==
    IF "step" \in DOMAIN param THEN Num(param.values[index + 1])
    ELSE param.values[index + 1]

\* The axes an iteration takes from the parent's axes at the current counters:
\* one single-valued EnumeratedValue per axis (per axis not already set, when
\* checkSet). An index past the end of a value list is an IndexError.
RECURSIVE CurrentValues(_, _, _, _)
CurrentValues(cs, o, axes, checkSet) ==
    IF axes = << >> THEN [err |-> "none", list |-> << >>]
    ELSE LET param == axes[1]
             rest == CurrentValues(cs, o, Tail(axes), checkSet)
         IN IF checkSet /\ IsParamSet(o, param.variable) THEN rest
            ELSE IF cs[CounterOf(cs, param.variable)].count >= GetNValues(param)
            THEN [err |-> "IndexError", list |-> << >>]
            ELSE [err |-> rest.err,
                  list |-> <<EnumeratedValue(param.variable,
                                 ValueAt(param, cs[CounterOf(cs, param.variable)].count))>>
                           \o rest.list]

\* The axis the RNG switch options add to every combination
RngSwitchValues(o) ==
    IF o.rng_switch # "" THEN <<EnumeratedValue(o.rng_switch, TrueStr)>>
    ELSE IF o.rng_no_switch # "" THEN <<EnumeratedValue(o.rng_no_switch, FalseStr)>>
    ELSE << >>

\* for param in opts.dir_params: enumerated_values.append(...)
DirParamValues(o, name, i, n) ==
    [k \in DOMAIN o.dir_params |->
        EnumeratedValue(o.dir_params[k], Str(Outdir(o, name, i, n)))]

\* for param in opts.file_params: enumerated_values.append(...)
FileParamValues(o, name, i, n) ==
    [k \in DOMAIN o.file_params |->
        EnumeratedValue(o.file_params[k],
                        Str(GetUniqueFilename(o, o.file_params[k], name, i, n).uname))]

\* The loop `for j in range(int(self.repetitions / reps))` from its j-th round
\* on. st holds the heap, the experiments appended so far, i, and the
\* exception raised. ev is the one enumerated_values list of the iteration:
\* every round appends to it and hands it to the new Experiment.
RECURSIVE RepetitionLoop(_, _, _, _, _, _, _, _)
RepetitionLoop(st, j, rounds, o, parent, n, use_metrics, ev) ==
    IF j = rounds \/ st.err # "none" THEN st
    ELSE LET reps == IF o.split_reps THEN 1 ELSE parent.repetitions
             new_name == parent.name \o <<"-">> \o ZeroPad(N_digits(n), st.i)
             h1 == [st.h EXCEPT ![ev] = @ \o DirParamValues(o, parent.name, st.i, n)]
             file_err == o.file_params # << >> /\ n - 1 <= 0
             h2 == IF file_err THEN h1
                   ELSE [h1 EXCEPT ![ev] = @ \o FileParamValues(o, parent.name, st.i, n)]
             h3 == Append(h2, << >>)
             new == Experiment(h3, new_name, parent.final, use_metrics, Len(h3), ev,
                               reps, Outdir(o, parent.name, st.i, n), DefaultLabelsRef)
         IN IF file_err
            THEN [st EXCEPT !.h = h2, !.err = "ValueError"]
            ELSE RepetitionLoop([h |-> new.heap, expts |-> Append(st.expts, new.e),
                                 i |-> st.i + 1, err |-> "none"],
                                j + 1, rounds, o, parent, n, use_metrics, ev)

\* The statements of uniqueSettings before its while loop
UniqueSettingsBegin ==
    /\ us.pc = "ready"
    /\ LET counters == FillCounters(
                           FillCounters(<< >>, opts, heap[expt.steppedValueSet], FALSE),
                           opts, heap[expt.enumeratedValueSet], TRUE)
           runs == GetNRuns(heap, expt)
           n == IF opts.split_reps THEN runs ELSE runs \div expt.repetitions
           copied == heap[expt.metrics]
           use_metrics == IF opts.rng_param # "" /\ opts.rng_param \notin Range(copied)
                          THEN Append(copied, opts.rng_param)
                          ELSE copied
       IN /\ heap' = Append(heap, use_metrics)
          /\ us' = [pc |-> "loop", counters |-> counters, i |-> 1, n |-> n,
                    use_metrics |-> Len(heap) + 1]
    /\ experiments' = << >>
    /\ UNCHANGED <<sv, expt, opts, batch, written, samples, stack, call, ws, grid>>

\* One round of `while not done`
UniqueSettingsIterate ==
    /\ us.pc = "loop"
    /\ LET stepped == CurrentValues(us.counters, opts, heap[expt.steppedValueSet], FALSE)
           enumerated == CurrentValues(us.counters, opts, heap[expt.enumeratedValueSet], TRUE)
           enumerated_values == stepped.list \o enumerated.list \o RngSwitchValues(opts)
           ev == Len(heap) + 1
           reps == IF opts.split_reps THEN 1 ELSE expt.repetitions
           st == RepetitionLoop([h |-> Append(heap, enumerated_values),
                                 expts |-> experiments, i |-> us.i, err |-> "none"],
                                0, expt.repetitions \div reps, opts, expt, us.n,
                                us.use_metrics, ev)
           counters == Carry(us.counters, 1)
       IN IF stepped.err # "none" \/ enumerated.err # "none"
          THEN /\ us' = [us EXCEPT !.pc = "IndexError"]
               /\ UNCHANGED <<heap, experiments>>
          ELSE IF st.err # "none"
          THEN /\ us' = [us EXCEPT !.pc = st.err]
               /\ heap' = st.h
               /\ experiments' = st.expts
          ELSE /\ us' = [us EXCEPT !.pc = IF AllZero(counters) THEN "done" ELSE "loop",
                                   !.counters = counters, !.i = st.i]
               /\ heap' = st.h
               /\ experiments' = st.expts
    /\ UNCHANGED <<sv, expt, opts, batch, written, samples, stack, call, ws, grid>>

--------------------------------------------------------------------------
(* Idle values of the variables a specification does not use *)

IdleSv == [pc |-> "idle", variable |-> "", first |-> 0, step |-> 0, last |-> 0,
           values |-> << >>]

IdleExpt == [name |-> << >>, final |-> << >>, metrics |-> DefaultLabelsRef,
             metricLabels |-> DefaultLabelsRef,
             steppedValueSet |-> DefaultSteppedRef,
             enumeratedValueSet |-> DefaultEnumeratedRef,
             repetitions |-> 1, results |-> <<".">>,
             addedFinalParametrics |-> FALSE]

IdleUs == [pc |-> "idle", counters |-> << >>, i |-> 0, n |-> 0, use_metrics |-> 0]

NoBatch == [built |-> FALSE,
            obj |-> [n_expt |-> 0, n_expt_digits |-> 0, task_limit |-> 0,
                     n_batch |-> 0, n_batch_digits |-> 0, batch_size |-> 0,
                     expt_name |-> << >>, n_runs |-> 0, error |-> NoError,
                     script |-> NoScript]]

NotWritten == [done |-> FALSE, failAt |-> 0, files |-> << >>, ret |-> << >>]

IdleCall == [pc |-> "idle", op |-> "", kind |-> "", of |-> 0, result |-> Str(<< >>),
             minm |-> 0]

IdleWs == [loop |-> "idle", next |-> 0, n |-> 0]

NoJobScript == [dialect |-> "", array |-> 0, n |-> 0]
NoSleeper == [written |-> FALSE, last |-> 0, n |-> 0, sub |-> "", qlist |-> ""]

IdleGrid == [pc |-> "idle", job |-> NoJobScript, sleeper |-> NoSleeper, wave |-> 0,
             accepted |-> {}, queue |-> {}, ran |-> {}, exited |-> {},
             submitted |-> << >>]

--------------------------------------------------------------------------
(* Actions shared by the specifications *)

\* Options.makeBatch: self.batch = Batch(self, expts)
MakeBatch ==
    /\ us.pc \in {"idle", "done"}
    /\ ~batch.built
    /\ batch' = [built |-> TRUE, obj |-> BatchInit(opts, heap, experiments)]
    /\ UNCHANGED <<sv, expt, opts, us, experiments, heap, written, samples, stack, call, ws, grid>>

\* Experiment.writeExperiments: writeExperimentsToFile over the list
WriteExperiments ==
    /\ us.pc \in {"idle", "done"}
    /\ ~written.done
    /\ \E failAt \in 0..DocumentCount(experiments, opts) :
          written' = [done |-> TRUE, failAt |-> failAt] @@
                     WriteExperimentsToFile(XmlFileName(opts), experiments, opts, failAt)
    /\ UNCHANGED <<sv, expt, opts, us, experiments, heap, batch, samples, stack, call, ws, grid>>

--------------------------------------------------------------------------
(* SpecStepped: construction of a stepped axis *)

InitStepped ==
    /\ sv \in [pc : {"new"}, variable : {"n"}, first : 0..MaxFirst,
               step : (-MaxStep)..MaxStep, last : 0..MaxFirst, values : {<< >>}]
    /\ expt = IdleExpt /\ opts = BaseOpts /\ us = IdleUs
    /\ experiments = << >> /\ heap = InitialHeap
    /\ batch = NoBatch /\ written = NotWritten
    /\ samples = << >> /\ stack = << >> /\ call = IdleCall /\ ws = IdleWs /\ grid = IdleGrid

\* SteppedValue.__init__
NewSteppedValue ==
    /\ sv.pc = "new"
    /\ sv' = IF SteppedRaises(sv.first, sv.step, sv.last)
             THEN [sv EXCEPT !.pc = "ValueError"]
             ELSE [sv EXCEPT !.pc = "done",
                             !.values = SteppedValues(sv.first, sv.step, sv.last)]
    /\ UNCHANGED <<expt, opts, us, experiments, heap, batch, written, samples, stack, call, ws, grid>>

\* Experiment.addSteppedValue: the SteppedValue is constructed, then appended
\* to the experiment's steppedValueSet; a raise in the constructor leaves the
\* list as it was
AddSteppedValue ==
    /\ sv.pc = "new"
    /\ IF SteppedRaises(sv.first, sv.step, sv.last)
       THEN /\ sv' = [sv EXCEPT !.pc = "ValueError"]
            /\ UNCHANGED heap
       ELSE /\ sv' = [sv EXCEPT !.pc = "added",
                                !.values = SteppedValues(sv.first, sv.step, sv.last)]
            /\ heap' = [heap EXCEPT ![expt.steppedValueSet] =
                           Append(@, SteppedValue(sv.variable, sv.first, sv.step, sv.last))]
    /\ UNCHANGED <<expt, opts, us, experiments, batch, written, samples, stack, call, ws, grid>>

NextStepped == NewSteppedValue \/ AddSteppedValue

SpecStepped == InitStepped /\ [][NextStepped]_vars

--------------------------------------------------------------------------
(* SpecBatch: Batch construction and document splitting over a given list *)

\* The name "<prefix><i zero-padded to w>"
RunName(prefix, w, i) == prefix \o ZeroPad(w, i)

\* The names 1..n with prefix "r-", padded to w
WellNamed(n, w) == [i \in 1..n |-> RunName(<<"r", "-">>, w, i)]

\* A list without its k-th element
Without(s, k) == [j \in 1..(Len(s) - 1) |-> IF j < k THEN s[j] ELSE s[j + 1]]

\* The name lists SpecBatch starts from: well named, with a gap, with a
\* duplicate, with a name of another stem, and padded one digit wider
NameLists ==
    UNION {
        {WellNamed(n, N_digits(n)), WellNamed(n, N_digits(n) + 1)}
        \cup {Without(WellNamed(n + 1, N_digits(n)), k) : k \in 1..(n + 1)}
        \cup {[WellNamed(n, N_digits(n)) EXCEPT ![k] = WellNamed(n, N_digits(n))[(k % n) + 1]]
                 : k \in 1..n}
        \cup {[WellNamed(n, N_digits(n)) EXCEPT ![k] = <<"q">> \o Tail(@)] : k \in 1..n}
        : n \in 1..MaxExpts}

\* An experiment as Experiment(name, "", "", "", None, None, metrics) builds it
NamedExperiment(name) ==
    Experiment(<<<< >>, << >>, << >>, << >>>>, name, << >>, 4, DefaultSteppedRef,
               DefaultEnumeratedRef, 1, <<".">>, DefaultLabelsRef).e

InitBatch ==
    /\ \E names \in NameLists :
          experiments = [k \in 1..Len(names) |-> NamedExperiment(names[k])]
    /\ \E mb \in 1..MaxBatchMax, bs \in 1..MaxBatchSize :
          opts = [BaseOpts EXCEPT !.max_batch = mb, !.batch_size = bs]
    /\ heap = <<<< >>, << >>, << >>, << >>>>
    /\ sv = IdleSv /\ expt = IdleExpt /\ us = IdleUs
    /\ batch = NoBatch /\ written = NotWritten
    /\ samples = << >> /\ stack = << >> /\ call = IdleCall /\ ws = IdleWs /\ grid = IdleGrid

NextBatch == MakeBatch \/ WriteExperiments

SpecBatch == InitBatch /\ [][NextBatch]_vars

--------------------------------------------------------------------------
(* SpecUS: uniqueSettings over an Experiment, then Batch over its result *)

\* An enumerated axis of `card` values, as EnumeratedValue.fromXML builds it
EnumeratedAxis(variable, card) ==
    EnumeratedValue(variable, List([k \in 1..card |-> Str(<<variable>> \o DecStr(k))]))

EnumeratedAxes == {EnumeratedAxis(v, c) : v \in {"a", "b"}, c \in 1..MaxCard}

\* The enumeratedValueSet lists of the parents: up to two axes, whose
\* variables may coincide
EnumeratedSets ==
    {<< >>} \cup {<<x>> : x \in EnumeratedAxes}
            \cup {<<x, y>> : x \in EnumeratedAxes, y \in EnumeratedAxes}

\* The steppedValueSet lists of the parents: none, an axis "n" of 1..MaxCard
\* values, or an axis on "a" (a variable the enumerated axes use too)
SteppedSets ==
    {<< >>, <<SteppedValue("a", 0, 1, 1)>>}
    \cup {<<SteppedValue("n", 0, 1, c - 1)>> : c \in 1..MaxCard}

\* The option settings: repetitions split or not; no RNG option, the RNG
\* switch on "a", or the RNG no-switch on "a" with a seed parameter; no
\* injected parameter, a directory parameter "b", a file parameter "f", or
\* both with add-outdir; one XML document or batches of two, with or without
\* a directory per experiment
OptionSettings ==
    {[BaseOpts EXCEPT !.split_reps = split,
                      !.rng_switch = rng[1], !.rng_no_switch = rng[2], !.rng_param = rng[3],
                      !.dir_params = inj[1], !.file_params = inj[2], !.add_outdir = inj[3],
                      !.max_batch = path[1], !.batch_size = path[2],
                      !.sep_expt_dirs = path[3]] :
        split \in BOOLEAN,
        rng \in {<<"", "", "">>, <<"a", "", "">>, <<"", "a", "s">>},
        inj \in {<<<< >>, << >>, FALSE>>, <<<<"b">>, << >>, FALSE>>,
                 <<<< >>, <<"f">>, FALSE>>, <<<<"b">>, <<"g">>, TRUE>>},
        path \in {<<MaxBatchMax, MaxBatchSize, FALSE>>, <<MaxBatchMax, MaxBatchSize, TRUE>>,
                  <<MaxReps, MaxCard, TRUE>>}}

\* The parent as Experiment.fromXMLString builds it: fresh metrics, stepped and
\* enumerated lists, no labels given
ParentExperiment(stepped, enumerated, repetitions) ==
    Experiment(InitialHeap \o <<<<"m">>, stepped, enumerated>>, <<"x">>, << >>,
               Len(InitialHeap) + 1, Len(InitialHeap) + 2, Len(InitialHeap) + 3,
               repetitions, <<".">>, DefaultLabelsRef)

InitUS ==
    /\ \E stepped \in SteppedSets, enumerated \in EnumeratedSets, r \in 1..MaxReps :
          /\ expt = ParentExperiment(stepped, enumerated, r).e
          /\ heap = ParentExperiment(stepped, enumerated, r).heap
    /\ opts \in OptionSettings
    /\ us = [IdleUs EXCEPT !.pc = "ready"]
    /\ experiments = << >>
    /\ sv = IdleSv /\ batch = NoBatch /\ written = NotWritten
    /\ samples = << >> /\ stack = << >> /\ call = IdleCall /\ ws = IdleWs /\ grid = IdleGrid

\* NetlogoModel.splitExperiment followed by Options.makeBatch
MakeBatchOfSettings ==
    /\ us.pc = "done"
    /\ MakeBatch

NextUS == UniqueSettingsBegin \/ UniqueSettingsIterate \/ MakeBatchOfSettings

SpecUS == InitUS /\ [][NextUS]_vars

--------------------------------------------------------------------------
(* SpecMetrics: metrics and their labels over Experiments that share lists *)

\* The Experiments that exist: the parent (0) and the children (1..)
ExperimentIds == 0..Len(experiments)
ExperimentAt(k) == IF k = 0 THEN expt ELSE experiments[k]

\* No uniqueSettings call is in its loop
BetweenCalls == us.pc \in {"ready", "done"}

\* Experiment.addMetric for a metric that is neither widget nor Experiment:
\* self.metrics.append(str(metric)); self.metricLabels.append(str(metric))
AddMetric(k, metric) ==
    /\ BetweenCalls
    /\ Len(heap[ExperimentAt(k).metrics]) < MaxMetrics
    /\ Len(heap[ExperimentAt(k).metricLabels]) < MaxMetrics
    /\ LET e == ExperimentAt(k)
           h1 == [heap EXCEPT ![e.metrics] = Append(@, metric)]
       IN heap' = [h1 EXCEPT ![e.metricLabels] = Append(@, metric)]
    /\ UNCHANGED <<sv, expt, opts, us, experiments, batch, written, samples, stack, call, ws, grid>>

\* Experiment.finallySaveParamMetrics once its loops over the axes and metrics
\* are through: self.final = <the saving code>, once
FinallySaveParamMetrics(e, file_name) ==
    IF e.addedFinalParametrics THEN e
    ELSE [e EXCEPT !.final = <<SaveCode(IF e.results # <<".">>
                                        THEN e.results \o <<"/">> \o file_name
                                        ELSE file_name)>>,
                   !.addedFinalParametrics = TRUE]

\* A call of finallySaveParamMetrics on Experiment k. Reading
\* self.metricLabels[i] for every metric raises IndexError when the labels are
\* fewer than the metrics; the Experiment is then left as it was.
SaveParamMetricsFinally(k) ==
    /\ BetweenCalls
    /\ LET e == ExperimentAt(k)
           raises == ~e.addedFinalParametrics
                        /\ Len(heap[e.metricLabels]) < Len(heap[e.metrics])
           saved == IF raises THEN e ELSE FinallySaveParamMetrics(e, <<"p", ".", "c", "s", "v">>)
       IN IF k = 0
          THEN expt' = saved /\ UNCHANGED experiments
          ELSE experiments' = [experiments EXCEPT ![k] = saved] /\ UNCHANGED expt
    /\ UNCHANGED <<sv, opts, us, heap, batch, written, samples, stack, call, ws, grid>>

\* Experiment.addEnumeratedValue:
\* self.enumeratedValueSet.append(EnumeratedValue(str(variable), values))
AddEnumeratedValue(k, variable, values) ==
    /\ BetweenCalls
    /\ Len(heap[ExperimentAt(k).enumeratedValueSet]) < MaxAxes
    /\ heap' = [heap EXCEPT ![ExperimentAt(k).enumeratedValueSet] =
                                Append(@, EnumeratedValue(variable, values))]
    /\ UNCHANGED <<sv, expt, opts, us, experiments, batch, written, samples, stack, call, ws, grid>>

\* Experiment.addSteppedValue:
\* self.steppedValueSet.append(SteppedValue(str(variable), first, step, last))
AddSteppedValueTo(k, variable, first, step, last) ==
    /\ BetweenCalls
    /\ ~SteppedRaises(first, step, last)
    /\ Len(heap[ExperimentAt(k).steppedValueSet]) < MaxAxes
    /\ heap' = [heap EXCEPT ![ExperimentAt(k).steppedValueSet] =
                                Append(@, SteppedValue(variable, first, step, last))]
    /\ UNCHANGED <<sv, expt, opts, us, experiments, batch, written, samples, stack, call, ws, grid>>

\* Default construction, as in Experiment.fromWidgets:
\* Experiment(opts.name, setup, go, "", stop, None, []) takes the default
\* arguments stepped_values = [], enumerated_values = [], metric_labels = [],
\* each one list object made when the def statement ran
DefaultConstruction ==
    /\ BetweenCalls
    /\ Len(heap) < MaxObjects
    /\ LET made == Experiment(Append(heap, << >>), <<"x">>, << >>, Len(heap) + 1,
                              DefaultSteppedRef, DefaultEnumeratedRef, 1, <<".">>,
                              DefaultLabelsRef)
       IN /\ heap' = made.heap
          /\ experiments' = Append(experiments, made.e)
    /\ UNCHANGED <<sv, expt, opts, us, batch, written, samples, stack, call, ws, grid>>

\* Experiment.clearMetrics: self.metrics = []
ClearMetrics(k) ==
    /\ BetweenCalls
    /\ Len(heap) < MaxObjects
    /\ heap' = Append(heap, << >>)
    /\ IF k = 0
       THEN /\ expt' = [expt EXCEPT !.metrics = Len(heap) + 1]
            /\ UNCHANGED experiments
       ELSE /\ experiments' = [experiments EXCEPT ![k].metrics = Len(heap) + 1]
            /\ UNCHANGED expt
    /\ UNCHANGED <<sv, opts, us, batch, written, samples, stack, call, ws, grid>>

\* Experiment.withParameterSettings with no parameter: new_enum_set = [], then
\* Experiment(self.name, ..., self.metrics, [], new_enum_set, self.repetitions,
\* ..., metric_labels = self.metricLabels); the caller keeps the new object
WithParameterSettings(k) ==
    /\ BetweenCalls
    /\ Len(heap) + 3 <= MaxObjects
    /\ LET e == ExperimentAt(k)
           made == Experiment(heap \o <<<< >>, << >>>>, e.name, e.final, e.metrics,
                              Len(heap) + 2, Len(heap) + 1, e.repetitions, <<".">>,
                              e.metricLabels)
       IN /\ heap' = made.heap
          /\ experiments' = Append(experiments, made.e)
    /\ UNCHANGED <<sv, expt, opts, us, batch, written, samples, stack, call, ws, grid>>

\* An Experiment as Experiment.fromXMLString builds it, with no axes and the
\* given metrics, and the options: with or without a seed parameter to report
InitMetrics ==
    /\ \E metrics \in {<< >>, <<"m">>}, final \in {<< >>, <<UserCode>>} :
          LET made == Experiment(InitialHeap \o <<metrics, << >>, << >>>>, <<"x">>, final,
                                 Len(InitialHeap) + 1, Len(InitialHeap) + 2,
                                 Len(InitialHeap) + 3, 1, <<".">>, DefaultLabelsRef)
          IN expt = made.e /\ heap = made.heap
    /\ opts \in {BaseOpts, [BaseOpts EXCEPT !.rng_param = "s"]}
    /\ us = [IdleUs EXCEPT !.pc = "ready"]
    /\ experiments = << >>
    /\ sv = IdleSv /\ batch = NoBatch /\ written = NotWritten
    /\ samples = << >> /\ stack = << >> /\ call = IdleCall /\ ws = IdleWs /\ grid = IdleGrid

NextMetrics ==
    \/ \E k \in ExperimentIds : AddMetric(k, "a")
    \/ \E k \in ExperimentIds : ClearMetrics(k)
    \/ \E k \in ExperimentIds : WithParameterSettings(k)
    \/ \E k \in ExperimentIds : SaveParamMetricsFinally(k)
    \/ \E k \in ExperimentIds : AddEnumeratedValue(k, "q", Num(1))
    \/ \E k \in ExperimentIds : AddSteppedValueTo(k, "r", 1, 1, 1)
    \/ DefaultConstruction
    \/ UniqueSettingsBegin
    \/ UniqueSettingsIterate

SpecMetrics == InitMetrics /\ [][NextMetrics]_vars

--------------------------------------------------------------------------
(* SpecScript: the submission script, the sleeper, and their run on a cluster *)

\* Option.valueStr of a flag: str(default) while the user has not assigned it,
\* str(True) once assigned (parseOptions assigns True to a flag)
FlagValueStr(assigned, opt, default) ==
    IF opt \in assigned THEN "True" ELSE IF default THEN "True" ELSE "False"

\* Options.__init__: self.cluster, from the flags SLURM (default True) and SGE
\* (default False)
ClusterOption(assigned) ==
    IF FlagValueStr(assigned, "SLURM", TRUE) = "True" THEN "SLURM"
    ELSE IF FlagValueStr(assigned, "SGE", FALSE) = "True" THEN "SGE"
    ELSE "SLURM"

\* The command lines Option.assign accepts: SGE and SLURM exclude each other
CommandLines == {{}, {"SGE"}, {"SLURM"}}

\* Script.saveSLURM / Script.saveSGE: the array range and the run count the
\* task guard of Batch.getTaskIDSh compares with
JobScript(dialect, b) ==
    [dialect |-> dialect, array |-> b.script.task_size, n |-> b.n_expt]

\* Script.saveSleeperScript: `for n in seq 0 last`, the submit command with
\* offset n * task_limit, the queue listing command
SleeperScript(o, b) ==
    [written |-> TRUE, last |-> CeilDiv(b.script.n_expt, o.task_limit) - 1,
     n |-> o.task_limit,
     sub |-> IF o.cluster = "SGE" THEN "qsub" ELSE "sbatch",
     qlist |-> IF o.cluster = "SGE" THEN "qstat" ELSE "squeue"]

\* Options.saveScript: the script of the selected dialect is saved, with the
\* sleeper when the Script needs one; another cluster name saves nothing
SaveScript ==
    /\ batch.built /\ batch.obj.error.type = "none"
    /\ grid.pc = "idle"
    /\ grid' = IF opts.cluster \in {"SLURM", "SGE"}
               THEN [grid EXCEPT !.pc = "saved",
                                 !.job = JobScript(opts.cluster, batch.obj),
                                 !.sleeper = IF batch.obj.script.need_sleeper
                                             THEN SleeperScript(opts, batch.obj)
                                             ELSE NoSleeper]
               ELSE [grid EXCEPT !.pc = "unrecognized"]
    /\ UNCHANGED <<sv, expt, opts, us, experiments, heap, batch, written,
                   samples, stack, call, ws>>

\* The user submits the job script itself, without argument
SubmitJobScript ==
    /\ grid.pc = "saved" /\ ~grid.sleeper.written
    /\ grid' = [grid EXCEPT !.pc = "submitted",
                            !.accepted = {[wave |-> 0, has_arg |-> FALSE, arg |-> 0]}]
    /\ UNCHANGED <<sv, expt, opts, us, experiments, heap, batch, written,
                   samples, stack, call, ws>>

\* The user starts the sleeper: for n in `seq 0 last`
StartSleeper ==
    /\ grid.pc = "saved" /\ grid.sleeper.written
    /\ grid' = [grid EXCEPT !.pc = "submit", !.wave = 0]
    /\ UNCHANGED <<sv, expt, opts, us, experiments, heap, batch, written,
                   samples, stack, call, ws>>

\* Sleeper: sbatch / qsub of the job script with argument `expr $n \* limit`
SleeperSubmit ==
    /\ grid.pc = "submit"
    /\ grid' = [grid EXCEPT !.pc = "settle",
                            !.submitted = Append(@, grid.wave * grid.sleeper.n),
                            !.accepted = @ \cup {[wave |-> grid.wave, has_arg |-> TRUE,
                                                  arg |-> grid.wave * grid.sleeper.n]}]
    /\ UNCHANGED <<sv, expt, opts, us, experiments, heap, batch, written,
                   samples, stack, call, ws>>

\* Sleeper: sleep 600 is over
SleeperSettle ==
    /\ grid.pc = "settle"
    /\ grid' = [grid EXCEPT !.pc = "poll"]
    /\ UNCHANGED <<sv, expt, opts, us, experiments, heap, batch, written,
                   samples, stack, call, ws>>

\* The for loop left after its first round
SleeperPoll_EndsAfterFirstWave ==
    /\ grid.pc = "poll"
    /\ grid' = IF grid.queue # {} THEN [grid EXCEPT !.pc = "sleep"]
               ELSE [grid EXCEPT !.pc = "end"]
    /\ UNCHANGED <<sv, expt, opts, us, experiments, heap, batch, written,
                   samples, stack, call, ws>>

\* Sleeper: the test of the while loop, the user's lines in the queue listing
\* counted; none left ends the wave, and the for loop goes on or ends
SleeperPoll ==
    /\ grid.pc = "poll"
    /\ grid' = IF grid.queue # {} THEN [grid EXCEPT !.pc = "sleep"]
               ELSE IF grid.wave < grid.sleeper.last
               THEN [grid EXCEPT !.pc = "submit", !.wave = grid.wave + 1]
               ELSE [grid EXCEPT !.pc = "end"]
    /\ UNCHANGED <<sv, expt, opts, us, experiments, heap, batch, written,
                   samples, stack, call, ws>>

\* Sleeper: the random sleep inside the while loop is over
SleeperWake ==
    /\ grid.pc = "sleep"
    /\ grid' = [grid EXCEPT !.pc = "poll"]
    /\ UNCHANGED <<sv, expt, opts, us, experiments, heap, batch, written,
                   samples, stack, call, ws>>

\* Scheduler: an accepted submission appears in the queue, one task per index
\* of the array range of the job script
SchedulerRegisters(submission) ==
    /\ submission \in grid.accepted
    /\ grid' = [grid EXCEPT
                  !.accepted = @ \ {submission},
                  !.queue = @ \cup {[wave |-> submission.wave, task |-> t,
                                     has_arg |-> submission.has_arg,
                                     arg |-> submission.arg] : t \in 1..grid.job.array}]
    /\ UNCHANGED <<sv, expt, opts, us, experiments, heap, batch, written,
                   samples, stack, call, ws>>

\* TASK_NO without the argument added
TaskNo_IgnoresOffset(task) == task.task

\* Batch.getTaskIDSh as the shell runs it: TASK_NO is the array task id, plus
\* $1 when there is an argument
TaskNo(task) == IF task.has_arg THEN task.task + task.arg ELSE task.task

\* Scheduler: a queued task runs the job script to its end and leaves the
\* queue: it exits at the guard when TASK_NO is greater than n, and runs
\* experiment TASK_NO otherwise
TaskRuns(task) ==
    /\ task \in grid.queue
    /\ grid' = IF TaskNo(task) > grid.job.n
               THEN [grid EXCEPT !.queue = @ \ {task},
                                 !.exited = @ \cup {<<task.wave, task.task>>}]
               ELSE [grid EXCEPT !.queue = @ \ {task},
                                 !.ran = @ \cup {<<task.wave, task.task, TaskNo(task)>>}]
    /\ UNCHANGED <<sv, expt, opts, us, experiments, heap, batch, written,
                   samples, stack, call, ws>>

\* A list of experiments as uniqueSettings names them, and the options parsed
\* from the command line
InitScript ==
    /\ \E n \in 1..MaxRuns :
          experiments = [k \in 1..n |-> NamedExperiment(WellNamed(n, N_digits(n))[k])]
    /\ \E limit \in 0..MaxTaskLimit, assigned \in CommandLines :
          opts = [BaseOpts EXCEPT !.task_limit = limit, !.assigned = assigned,
                                  !.cluster = ClusterOption(assigned)]
    /\ heap = <<<< >>, << >>, << >>, << >>>>
    /\ sv = IdleSv /\ expt = IdleExpt /\ us = IdleUs
    /\ batch = NoBatch /\ written = NotWritten
    /\ samples = << >> /\ stack = << >> /\ call = IdleCall /\ ws = IdleWs /\ grid = IdleGrid

NextScript ==
    \/ MakeBatch
    \/ SaveScript
    \/ SubmitJobScript
    \/ StartSleeper
    \/ SleeperSubmit
    \/ SleeperSettle
    \/ SleeperPoll
    \/ SleeperWake
    \/ \E submission \in grid.accepted : SchedulerRegisters(submission)
    \/ \E task \in grid.queue : TaskRuns(task)

SpecScript == InitScript /\ [][NextScript]_vars

\* The sleeper is a running shell process: each of its commands (the submit
\* command, the sleeps, the queue listing) ends and the next one starts
SleeperStep == SleeperSubmit \/ SleeperSettle \/ SleeperPoll \/ SleeperWake

\* The scheduler at work: an accepted submission gets queued, a queued task
\* runs and leaves the queue
SchedulerStep ==
    \/ \E submission \in grid.accepted : SchedulerRegisters(submission)
    \/ \E task \in grid.queue : TaskRuns(task)

SpecScriptFair ==
    InitScript /\ [][NextScript]_vars /\ WF_vars(SleeperStep) /\ WF_vars(SchedulerStep)

--------------------------------------------------------------------------
(* Sample: bounds that refer to other Samples, and sampling *)

\* A bound or a value of a Sample: a text read from the CSV file (Str), a
\* number drawn (Num), a Parameter object, another Sample object, or None
NA == Str(<<"N", "A">>)
None == [t |-> "none", v |-> 0]
SampleRef(id) == [t |-> "sample", v |-> id]
ParameterRef(value) == [t |-> "param", v |-> value]

\* int(x) of a text of digits
RECURSIVE ParseInt(_)
ParseInt(str) ==
    IF str = << >> THEN 0
    ELSE 10 * ParseInt(SubSeq(str, 1, Len(str) - 1))
         + (CHOOSE d \in 0..9 : DigitChar(d) = str[Len(str)])

\* int(x) / float(x) of a resolved bound, and the error it raises instead
IntOf(value) == IF value.t = "num" THEN value.v ELSE ParseInt(value.v)

IntRaises(value) ==
    IF value.t = "num" THEN "none"
    ELSE IF value.t = "str"
    THEN IF value.v # << >>
            /\ \A k \in 1..Len(value.v) : \E d \in 0..9 : DigitChar(d) = value.v[k]
         THEN "none" ELSE "ValueError"
    ELSE "TypeError"

\* The body of minimumValue (kind = "min") / maximumValue (kind = "max") of
\* Sample s, without the cached-draw test: a referenced Sample is always
\* resolved afresh
ResolveBound_IgnoresCache(ss, s, kind) ==
    LET me == ss[s]
        bound == IF kind = "min" THEN me.minimum ELSE me.maximum
        is_param == IF kind = "min" THEN me.min_is_param ELSE me.max_is_param
    IN IF bound = NA THEN [act |-> "value", v |-> NA]
       ELSE IF me.one_of
       THEN [act |-> "value", v |-> IF kind = "min" THEN Num(0) ELSE Num(Len(me.options))]
       ELSE IF me.chooser THEN [act |-> "value", v |-> bound]
       ELSE IF is_param
       THEN IF bound.t = "param" THEN [act |-> "value", v |-> bound.v]
            ELSE IF bound.t = "sample"
            THEN IF ss[bound.v].tagged THEN [act |-> "circular", v |-> bound]
                 ELSE [act |-> "descend", v |-> bound]
            ELSE [act |-> "value", v |-> None]
       ELSE [act |-> "value", v |-> bound]

\* The body of minimumValue / maximumValue without the tagged test: a
\* referenced Sample that is not drawn is always descended into
ResolveBound_NoCycleTest(ss, s, kind) ==
    LET me == ss[s]
        bound == IF kind = "min" THEN me.minimum ELSE me.maximum
        is_param == IF kind = "min" THEN me.min_is_param ELSE me.max_is_param
    IN IF bound = NA THEN [act |-> "value", v |-> NA]
       ELSE IF me.one_of
       THEN [act |-> "value", v |-> IF kind = "min" THEN Num(0) ELSE Num(Len(me.options))]
       ELSE IF me.chooser THEN [act |-> "value", v |-> bound]
       ELSE IF is_param
       THEN IF bound.t = "param" THEN [act |-> "value", v |-> bound.v]
            ELSE IF bound.t = "sample"
            THEN IF ss[bound.v].sampled
                 THEN [act |-> "value", v |-> ss[bound.v].last_sample]
                 ELSE [act |-> "descend", v |-> bound]
            ELSE [act |-> "value", v |-> None]
       ELSE [act |-> "value", v |-> bound]

\* The body of minimumValue (kind = "min") / maximumValue (kind = "max") of
\* Sample s, after self.tagged = True: the value it returns, the Sample whose
\* own bound it goes on to resolve, or the circular-reference exit
ResolveBound(ss, s, kind) ==
    LET me == ss[s]
        bound == IF kind = "min" THEN me.minimum ELSE me.maximum
        is_param == IF kind = "min" THEN me.min_is_param ELSE me.max_is_param
    IN IF bound = NA THEN [act |-> "value", v |-> NA]
       ELSE IF me.one_of
       THEN [act |-> "value", v |-> IF kind = "min" THEN Num(0) ELSE Num(Len(me.options))]
       ELSE IF me.chooser THEN [act |-> "value", v |-> bound]
       ELSE IF is_param
       THEN IF bound.t = "param" THEN [act |-> "value", v |-> bound.v]
            ELSE IF bound.t = "sample"
            THEN IF ss[bound.v].sampled
                 THEN [act |-> "value", v |-> ss[bound.v].last_sample]
                 ELSE IF ss[bound.v].tagged THEN [act |-> "circular", v |-> bound]
                 ELSE [act |-> "descend", v |-> bound]
            ELSE [act |-> "value", v |-> None]
       ELSE [act |-> "value", v |-> bound]

\* No call on a Sample is in progress, and the process has not exited
CanCall == call.pc \in {"idle", "returned"}

\* Entering minimumValue / maximumValue of Sample s: self.tagged = True
Enter(s, op, kind) ==
    /\ samples' = [samples EXCEPT ![s].tagged = TRUE]
    /\ stack' = <<s>>
    /\ call' = [IdleCall EXCEPT !.pc = "running", !.op = op, !.kind = kind, !.of = s]

\* A call of s.minimumValue()
StartMinimumValue(s) ==
    /\ CanCall
    /\ Enter(s, "minimumValue", "min")
    /\ UNCHANGED <<sv, expt, opts, us, experiments, heap, batch, written, ws, grid>>

\* A call of s.maximumValue()
StartMaximumValue(s) ==
    /\ CanCall
    /\ Enter(s, "maximumValue", "max")
    /\ UNCHANGED <<sv, expt, opts, us, experiments, heap, batch, written, ws, grid>>

\* The frame on top of the stack goes into the Sample its bound refers to
Descend ==
    /\ call.pc = "running"
    /\ LET r == ResolveBound(samples, stack[Len(stack)], call.kind)
       IN /\ r.act = "descend"
          /\ samples' = [samples EXCEPT ![r.v.v].tagged = TRUE]
          /\ stack' = Append(stack, r.v.v)
    /\ UNCHANGED <<sv, expt, opts, us, experiments, heap, batch, written, ws, call, grid>>

\* The frame on top of the stack finds the Sample it refers to tagged:
\* the error message and sys.exit(1)
CircularExit ==
    /\ call.pc = "running"
    /\ ResolveBound(samples, stack[Len(stack)], call.kind).act = "circular"
    /\ call' = [call EXCEPT !.pc = "exit"]
    /\ UNCHANGED <<sv, expt, opts, us, experiments, heap, batch, written, ws, samples, stack, grid>>

\* ResolveValue without `self.tagged = False`
ResolveValue_KeepsTag ==
    /\ call.pc = "running"
    /\ LET r == ResolveBound(samples, stack[Len(stack)], call.kind)
       IN /\ r.act = "value"
          /\ call' = [call EXCEPT !.pc = "returning", !.result = r.v]
    /\ stack' = SubSeq(stack, 1, Len(stack) - 1)
    /\ UNCHANGED <<sv, expt, opts, us, experiments, heap, batch, written, ws, grid, samples>>

\* The frame on top of the stack has its value: self.tagged = False; return
ResolveValue ==
    /\ call.pc = "running"
    /\ LET r == ResolveBound(samples, stack[Len(stack)], call.kind)
       IN /\ r.act = "value"
          /\ call' = [call EXCEPT !.pc = "returning", !.result = r.v]
    /\ samples' = [samples EXCEPT ![stack[Len(stack)]].tagged = FALSE]
    /\ stack' = SubSeq(stack, 1, Len(stack) - 1)
    /\ UNCHANGED <<sv, expt, opts, us, experiments, heap, batch, written, ws, grid>>

\* A calling frame receives retval: self.tagged = False; return retval
Return ==
    /\ call.pc = "returning"
    /\ stack # << >>
    /\ samples' = [samples EXCEPT ![stack[Len(stack)]].tagged = FALSE]
    /\ stack' = SubSeq(stack, 1, Len(stack) - 1)
    /\ UNCHANGED <<sv, expt, opts, us, experiments, heap, batch, written, ws, call, grid>>

\* minimumValue / maximumValue called from outside returns to its caller
Returned ==
    /\ call.pc = "returning"
    /\ stack = << >>
    /\ call.op \in {"minimumValue", "maximumValue"}
    /\ call' = [call EXCEPT !.pc = "returned"]
    /\ UNCHANGED <<sv, expt, opts, us, experiments, heap, batch, written, ws, samples, stack, grid>>

\* The branches of sample() that draw without resolving a bound: the value
\* drawn, or "resolve" when the bounds have to be resolved first
SampleDirect(me) ==
    IF me.minimum = NA \/ me.maximum = NA
    THEN {[act |-> "value", v |-> me.setting]}
    ELSE IF me.one_of
    THEN {IF rint < Len(me.options)
          THEN [act |-> "value", v |-> me.options[rint + 1]]
          ELSE [act |-> "IndexError", v |-> None] : rint \in 0..Len(me.options)}
    ELSE IF me.minimum = me.maximum
    THEN {[act |-> "value",
           v |-> IF me.minimum.t = "param" THEN me.minimum.v ELSE me.minimum]}
    ELSE IF me.datatype \in {"integer", "numeric"}
    THEN {[act |-> "resolve", v |-> None]}
    ELSE IF me.datatype = "boolean"
    THEN {[act |-> "value", v |-> [t |-> "bool", v |-> b]] : b \in BOOLEAN}
    ELSE {[act |-> "value", v |-> me.setting]}

\* The loop of withSamples that is running moves on to the next Sample, and
\* from the newSample loop to the sample loop; after the sample loop comes
\* withParameterSettings when withNSamples has children to build (ws.n > 0),
\* and the next call of withSamples when what it returns is not kept (ws.n = 0)
NextInLoop ==
    IF ws.next < Len(samples) THEN [ws EXCEPT !.next = ws.next + 1]
    ELSE [ws EXCEPT !.loop = IF ws.loop = "newSample" THEN "sample"
                             ELSE IF ws.n > 0 THEN "settings" ELSE "newSample",
                    !.next = 1]

\* withSamples calls s.sample(): it draws at once, or starts with
\* self.minimumValue()
StartSample(s) ==
    /\ CanCall
    /\ ws.loop = "sample" /\ ws.next = s
    /\ ws' = NextInLoop
    /\ \E d \in SampleDirect(samples[s]) :
          IF d.act = "resolve"
          THEN Enter(s, "sample", "min")
          ELSE IF d.act = "value"
          THEN /\ samples' = [samples EXCEPT ![s].last_sample = d.v, ![s].sampled = TRUE]
               /\ call' = [IdleCall EXCEPT !.pc = "returned", !.op = "sample",
                                           !.of = s, !.result = d.v]
               /\ UNCHANGED stack
          ELSE /\ call' = [IdleCall EXCEPT !.pc = d.act, !.op = "sample", !.of = s]
               /\ UNCHANGED <<samples, stack>>
    /\ UNCHANGED <<sv, expt, opts, us, experiments, heap, batch, written, grid>>

\* sample(): minm = int(self.minimumValue()) is done, self.maximumValue() starts
SampleResolveMaximum ==
    /\ call.pc = "returning"
    /\ stack = << >>
    /\ call.op = "sample" /\ call.kind = "min"
    /\ IF IntRaises(call.result) # "none"
       THEN /\ call' = [call EXCEPT !.pc = IntRaises(call.result)]
            /\ UNCHANGED <<samples, stack>>
       ELSE /\ samples' = [samples EXCEPT ![call.of].tagged = TRUE]
            /\ stack' = <<call.of>>
            /\ call' = [call EXCEPT !.pc = "running", !.kind = "max",
                                    !.minm = IntOf(call.result)]
    /\ UNCHANGED <<sv, expt, opts, us, experiments, heap, batch, written, ws, grid>>

\* sample(): maxm is resolved; rnd.randint(minm, maxm) or rnd.uniform(minm, maxm),
\* then self.sampled = True. randint raises ValueError on an empty range.
SampleDraw ==
    /\ call.pc = "returning"
    /\ stack = << >>
    /\ call.op = "sample" /\ call.kind = "max"
    /\ LET minm == call.minm
           maxm == IntOf(call.result)
           lo == IF minm <= maxm THEN minm ELSE maxm
           hi == IF minm <= maxm THEN maxm ELSE minm
       IN IF IntRaises(call.result) # "none"
          THEN /\ call' = [call EXCEPT !.pc = IntRaises(call.result)]
               /\ UNCHANGED samples
          ELSE IF samples[call.of].datatype = "integer" /\ minm > maxm
          THEN /\ call' = [call EXCEPT !.pc = "ValueError"]
               /\ UNCHANGED samples
          ELSE \E drawn \in lo..hi :
                  /\ samples' = [samples EXCEPT ![call.of].last_sample = Num(drawn),
                                                ![call.of].sampled = TRUE]
                  /\ call' = [IdleCall EXCEPT !.pc = "returned", !.op = "sample",
                                              !.of = call.of, !.result = Num(drawn)]
    /\ UNCHANGED <<sv, expt, opts, us, experiments, heap, batch, written, ws, stack, grid>>

\* withSamples calls s.newSample()
NewSample(s) ==
    /\ CanCall
    /\ ws.loop = "newSample" /\ ws.next = s
    /\ ws' = NextInLoop
    /\ samples' = [samples EXCEPT ![s].sampled = FALSE]
    /\ call' = [IdleCall EXCEPT !.pc = "returned", !.op = "newSample", !.of = s,
                                !.result = None]
    /\ UNCHANGED <<sv, expt, opts, us, experiments, heap, batch, written, stack, grid>>

--------------------------------------------------------------------------
(* SpecSample: Samples whose bounds are texts or refer to each other *)

SampleIds == 1..NSamples

\* Sample.__init__ followed by the linking loop of Sample.read, for an integer
\* parameter that is no Chooser: a bound names a parameter that has a Sample
\* (min_is_param / max_is_param set, the bound replaced by that Sample) or is a
\* text of digits
NewSampleObject(id, minimum, maximum) ==
    [varname |-> id, datatype |-> "integer", chooser |-> FALSE, one_of |-> FALSE,
     options |-> << >>, setting |-> Str(<<"0">>),
     minimum |-> minimum, maximum |-> maximum,
     min_is_param |-> minimum.t = "sample", max_is_param |-> maximum.t = "sample",
     sampled |-> FALSE, last_sample |-> None, tagged |-> FALSE]

\* The bounds in the sample file: the texts 0 and 1, or the name of a parameter
\* that has a Sample
MinimumBounds == {Str(<<"0">>)} \cup {SampleRef(t) : t \in SampleIds}
MaximumBounds == {Str(<<"1">>)} \cup {SampleRef(t) : t \in SampleIds}

\* The sample file read and withSamples entered: the minimum bounds refer to
\* anything and the maximum bounds are all texts, or the other way round, or
\* both kinds of bound of a Sample refer to the same place
InitSample ==
    /\ \E mins \in [SampleIds -> MinimumBounds], maxs \in [SampleIds -> MaximumBounds] :
          /\ \/ \A s \in SampleIds : maxs[s].t = "str"
             \/ \A s \in SampleIds : mins[s].t = "str"
             \/ \A s \in SampleIds : mins[s].t = "sample" /\ maxs[s] = mins[s]
          /\ samples = [s \in SampleIds |-> NewSampleObject(s, mins[s], maxs[s])]
    /\ stack = << >> /\ call = IdleCall
    /\ ws = [loop |-> "newSample", next |-> 1, n |-> 0] /\ grid = IdleGrid
    /\ sv = IdleSv /\ expt = IdleExpt /\ opts = BaseOpts /\ us = IdleUs
    /\ experiments = << >> /\ heap = InitialHeap
    /\ batch = NoBatch /\ written = NotWritten

NextSample ==
    \/ \E s \in SampleIds : StartMinimumValue(s)
    \/ \E s \in SampleIds : StartMaximumValue(s)
    \/ \E s \in SampleIds : StartSample(s)
    \/ \E s \in SampleIds : NewSample(s)
    \/ Descend
    \/ CircularExit
    \/ ResolveValue
    \/ Return
    \/ Returned
    \/ SampleResolveMaximum
    \/ SampleDraw

SpecSample == InitSample /\ [][NextSample]_vars

\* The steps inside a call: Python runs a call to its return, its exception
\* or its exit without waiting for anything
InsideCall ==
    \/ Descend
    \/ CircularExit
    \/ ResolveValue
    \/ Return
    \/ Returned
    \/ SampleResolveMaximum
    \/ SampleDraw

SpecSampleFair == InitSample /\ [][NextSample]_vars /\ WF_vars(InsideCall)

--------------------------------------------------------------------------
(* SpecMonte: withNSamples over Samples with ranges, references and one-of *)

\* Sample.__init__ for a line whose minimum is "one-of": the options are the
\* choices of the maximum column
OneOfSample(id, options) ==
    [varname |-> id, datatype |-> "string", chooser |-> FALSE, one_of |-> TRUE,
     options |-> options, setting |-> NA,
     minimum |-> Num(0), maximum |-> Num(Len(options)),
     min_is_param |-> FALSE, max_is_param |-> FALSE,
     sampled |-> FALSE, last_sample |-> None, tagged |-> FALSE]

\* s.param.variable(): the name of the parameter Sample s is read for
Variable(s) == <<"p1", "p2", "p3", "p4", "p5", "p6">>[s]

\* The Samples a line of the sample file makes: the range 0 to 1, a range whose
\* minimum names the parameter of the next line (the first, for the last
\* line), a range whose maximum names it, a line whose minimum and maximum
\* both name it, or a choice between two texts
SampleLines(s) ==
    {NewSampleObject(s, Str(<<"0">>), Str(<<"1">>)),
     NewSampleObject(s, SampleRef((s % NSamples) + 1), Str(<<"1">>)),
     NewSampleObject(s, Str(<<"0">>), SampleRef((s % NSamples) + 1)),
     NewSampleObject(s, SampleRef((s % NSamples) + 1), SampleRef((s % NSamples) + 1)),
     OneOfSample(s, <<Str(<<"u">>), Str(<<"v">>)>>)}

\* Experiment.finallySaveParamMetricsExpt
FinallySaveParamMetricsExpt(e) ==
    FinallySaveParamMetrics(e, e.name \o <<".", "c", "s", "v">>)

\* The end of an iteration of withNSamples: withSamples returns
\* self.withParameterSettings(param), param holding the value of each sample()
\* of this iteration under the parameter's name; the child is renamed, given
\* its final code, its directory and file parameters and its results
\* directory, and appended
WithSamplesReturn ==
    /\ ws.loop = "settings"
    /\ call.pc = "returned"
    /\ LET i == Len(experiments)
           n == ws.n
           new_enum_set == [s \in 1..Len(samples) |->
                               EnumeratedValue(Variable(s), samples[s].last_sample)]
           made == Experiment(heap \o <<<< >>, new_enum_set>>, expt.name, expt.final,
                              expt.metrics, Len(heap) + 1, Len(heap) + 2,
                              expt.repetitions, <<".">>, expt.metricLabels)
           new_name == expt.name \o <<"-">> \o ZeroPad(N_digits(n), i + 1)
           renamed == [made.e EXCEPT !.name = new_name]
           saved == IF opts.save_csv THEN FinallySaveParamMetricsExpt(renamed) ELSE renamed
           h1 == [made.heap EXCEPT ![saved.enumeratedValueSet] =
                                       @ \o DirParamValues(opts, expt.name, i + 1, n)]
           file_err == opts.file_params # << >> /\ n - 1 <= 0
           h2 == [h1 EXCEPT ![saved.enumeratedValueSet] =
                                @ \o FileParamValues(opts, expt.name, i + 1, n)]
       IN IF file_err
          THEN /\ heap' = h1
               /\ call' = [IdleCall EXCEPT !.pc = "ValueError", !.op = "getUniqueFilename"]
               /\ UNCHANGED <<experiments, ws>>
          ELSE /\ heap' = h2
               /\ experiments' =
                     Append(experiments,
                            [saved EXCEPT !.results = Outdir(opts, expt.name, i + 1, n)])
               /\ call' = IdleCall
               /\ ws' = [ws EXCEPT !.loop = IF i + 1 < n THEN "newSample" ELSE "done",
                                   !.next = 1]
    /\ UNCHANGED <<sv, expt, opts, us, batch, written, samples, stack, grid>>

\* monte: the sample file read, the parent made by Experiment.fromWidgets, and
\* withNSamples(samples, n, opts) entered; without injected parameter, with a
\* directory parameter, or with a file parameter
InitMonte ==
    /\ samples \in [SampleIds -> UNION {SampleLines(s) : s \in SampleIds}]
    /\ \A s \in SampleIds : samples[s] \in SampleLines(s)
    /\ \E n \in 1..MaxChildren : ws = [loop |-> "newSample", next |-> 1, n |-> n]
    /\ opts \in {BaseOpts,
                 [BaseOpts EXCEPT !.dir_params = <<"b">>, !.sep_expt_dirs = TRUE],
                 [BaseOpts EXCEPT !.file_params = <<"f">>]}
    /\ expt = ParentExperiment(<< >>, << >>, 1).e
    /\ heap = ParentExperiment(<< >>, << >>, 1).heap
    /\ experiments = << >>
    /\ stack = << >> /\ call = IdleCall /\ grid = IdleGrid
    /\ sv = IdleSv /\ us = IdleUs /\ batch = NoBatch /\ written = NotWritten

NextMonte ==
    \/ \E s \in SampleIds : NewSample(s)
    \/ \E s \in SampleIds : StartSample(s)
    \/ Descend
    \/ CircularExit
    \/ ResolveValue
    \/ Return
    \/ SampleResolveMaximum
    \/ SampleDraw
    \/ WithSamplesReturn

SpecMonte == InitMonte /\ [][NextMonte]_vars

--------------------------------------------------------------------------
(* Claims about SteppedValue (SpecStepped) *)

\* C11: constructing a stepped axis raises exactly when step < 0 and
\* first < last, or step > 0 and first > last, or step = 0 and first # last
\* (so step = 0 is accepted exactly when first = last); when it raises, no
\* value list is materialized and nothing is appended to the experiment's
\* steppedValueSet, and when it does not, the axis exists.
C11_SteppedRaisesOnSignMismatch ==
    sv.pc # "new" =>
        /\ sv.pc = "ValueError" <=>
              \/ sv.step < 0 /\ sv.first < sv.last
              \/ sv.step > 0 /\ sv.first > sv.last
              \/ sv.step = 0 /\ sv.first # sv.last
        /\ (sv.step = 0 /\ sv.pc # "ValueError") <=> (sv.step = 0 /\ sv.first = sv.last)
        /\ sv.pc = "ValueError" =>
              /\ sv.values = << >>
              /\ heap[expt.steppedValueSet] = << >>
        /\ sv.pc = "done" => sv.values # << >> /\ sv.values[1] = sv.first
        /\ sv.pc = "added" =>
              /\ Len(heap[expt.steppedValueSet]) = 1
              /\ heap[expt.steppedValueSet][1].values = sv.values

\* C11 witness: addSteppedValue with step 0 and first # last has raised and
\* the steppedValueSet is still empty
C11_Witness ==
    /\ sv.pc = "ValueError"
    /\ sv.step = 0 /\ sv.first # sv.last
    /\ heap[expt.steppedValueSet] = << >>

\* C9: for every valid Stepped{first, step, last} the materialized sequence
\* starts at first, is monotonic in the direction of step's sign, and has no
\* element greater than last when step > 0 and none less than last when step < 0.
C9_SteppedStaysWithinLast ==
    sv.pc = "done" =>
        /\ sv.values # << >> /\ sv.values[1] = sv.first
        /\ \A k \in 1..(Len(sv.values) - 1) :
              /\ sv.step > 0 => sv.values[k + 1] > sv.values[k]
              /\ sv.step < 0 => sv.values[k + 1] < sv.values[k]
        /\ sv.step > 0 => \A k \in DOMAIN sv.values : sv.values[k] <= sv.last
        /\ sv.step < 0 => \A k \in DOMAIN sv.values : sv.values[k] >= sv.last

\* C10: for every valid Stepped{first, step, last} with step # 0 the final
\* element is within one step of last and the cardinality is
\* floor(|last - first| / |step|) + 1, for descending axes too.
C10_SteppedComplete ==
    (sv.pc = "done" /\ sv.step # 0) =>
        /\ Abs(sv.last - sv.values[Len(sv.values)]) < Abs(sv.step)
        /\ Len(sv.values) = (Abs(sv.last - sv.first) \div Abs(sv.step)) + 1

--------------------------------------------------------------------------
(* Claims about Batch and the XML documents (SpecBatch) *)

\* The names are exactly <prefix><i zero-padded to digits(N)>, i = 1..N, for
\* some non-empty prefix, with no duplicate
NamesWellFormed(names) ==
    /\ names # << >>
    /\ \A j, k \in DOMAIN names : j # k => names[j] # names[k]
    /\ \E m \in 1..Len(names[1]) :
          LET prefix == SubSeq(names[1], 1, m)
          IN Range(names) = {RunName(prefix, N_digits(Len(names)), i) : i \in DOMAIN names}

ExperimentNames == [k \in DOMAIN experiments |-> experiments[k].name]

\* C5: Batch construction over a list whose names contain a duplicate, share
\* no prefix or lack an expected name fails with an error flagged as a bug.
C5_BadNamesRaiseBugFault ==
    (batch.built /\ ~NamesWellFormed(ExperimentNames)) =>
        /\ batch.obj.error.type = "NLogoError"
        /\ batch.obj.error.bug

\* C23: for every run index i the document the script selects for task i is a
\* document writeExperimentsToFile wrote, and it contains the experiment
\* named by the task's EXPT_ID.
C23_ScriptSelectsWrittenDocument ==
    (/\ batch.built /\ written.done /\ written.failAt = 0
     /\ NamesWellFormed(ExperimentNames))
    => /\ batch.obj.error.type = "none"
       /\ \A i \in DOMAIN experiments :
             \E d \in DOMAIN written.files :
                 /\ written.files[d].file = SetupFile(batch.obj, opts, i)
                 /\ GetExptIDsh(batch.obj, i) \in Range(written.files[d].expts)

\* The same for two or more experiments in one document or in more than one
C23_ExceptOneBatchOverMax ==
    (Len(experiments) >= 2
     /\ (Len(experiments) <= opts.max_batch \/ Len(experiments) > opts.batch_size))
    => C23_ScriptSelectsWrittenDocument

\* The least c with c * size >= n
CeilingOf(n, size) == CHOOSE c \in 0..n : c * size >= n /\ \A d \in 0..n : d * size >= n => c <= d

\* C6: without an I/O error, writeExperimentsToFile writes one document with
\* all N experiments when N <= max_batch, and otherwise ceil(N / batch_size)
\* documents numbered 1.. (zero-padded to the digits of their count), the k-th
\* holding experiments (k-1)*batch_size+1 .. min(k*batch_size, N) in order.
C6_DocumentsPartitionExperiments ==
    (written.done /\ written.failAt = 0) =>
        LET N == Len(experiments)
            size == opts.batch_size
            groups == CeilingOf(N, size)
            stem == SubSeq(XmlFileName(opts), 1, Len(XmlFileName(opts)) - 4)
        IN IF N <= opts.max_batch
           THEN /\ Len(written.files) = 1
                /\ written.files[1].file = XmlFileName(opts)
                /\ written.files[1].expts = ExperimentNames
           ELSE /\ Len(written.files) = groups
                /\ \A k \in 1..groups :
                      LET lo == (k - 1) * size + 1
                          hi == IF k * size < N THEN k * size ELSE N
                      IN /\ written.files[k].file =
                               stem \o <<"-">> \o ZeroPad(N_digits(groups), k)
                                    \o <<".", "x", "m", "l">>
                         /\ written.files[k].expts = SubSeq(ExperimentNames, lo, hi)
                /\ \A i \in 1..N :
                      Cardinality({<<k, j>> \in (1..groups) \X (1..size) :
                                      /\ j <= Len(written.files[k].expts)
                                      /\ (k - 1) * size + j = i}) = 1

\* 12 experiments, threshold 10, group size 5: 3 documents of 5, 5 and 2
C6_Witness ==
    /\ written.done /\ written.failAt = 0
    /\ Len(experiments) = 12 /\ opts.max_batch = 10 /\ opts.batch_size = 5
    /\ Len(written.files) = 3
    /\ Len(written.files[1].expts) = 5
    /\ Len(written.files[2].expts) = 5
    /\ Len(written.files[3].expts) = 2

--------------------------------------------------------------------------
(* Claims about uniqueSettings (SpecUS) *)

ParentStepped == heap[expt.steppedValueSet]
ParentEnumerated == heap[expt.enumeratedValueSet]
ParentAxes == ParentStepped \o ParentEnumerated

\* uniqueSettings has ended, by returning or by an exception
Ended == us.pc \notin {"idle", "ready", "loop"}

\* No axis of the parent is on a variable the options declare already set
NoExcludedAxes == \A k \in DOMAIN ParentAxes : ~IsParamSet(opts, ParentAxes[k].variable)

RECURSIVE CardinalityProduct(_, _)
CardinalityProduct(axes, upto) ==
    IF upto = 0 THEN 1
    ELSE Len(axes[upto].values) * CardinalityProduct(axes, upto - 1)

\* C1: with all cardinalities >= 1, r >= 1 and no excluded axes, uniqueSettings
\* returns r x (product of the cardinalities) children of one repetition each
\* when repetitions are split out, and (product of the cardinalities) children
\* of r repetitions each when they are not.
C1_ChildCountIsRunCount ==
    (Ended /\ NoExcludedAxes) =>
        /\ us.pc = "done"
        /\ Len(experiments) =
              (IF opts.split_reps THEN expt.repetitions ELSE 1)
                  * CardinalityProduct(ParentAxes, Len(ParentAxes))
        /\ \A k \in DOMAIN experiments :
              experiments[k].repetitions = IF opts.split_reps THEN 1 ELSE expt.repetitions

\* C2: the children are named <parent name>-<i>, i = 1..N in emission order,
\* with i zero-padded to digits(N), N the number of children returned.
C2_NamesPaddedToChildCount ==
    us.pc = "done" =>
        \A i \in DOMAIN experiments :
            experiments[i].name =
                expt.name \o <<"-">> \o ZeroPad(Len(DecStr(Len(experiments))), i)

KeptAxes == ParentStepped \o SelectSeq(ParentEnumerated,
                                       LAMBDA a : ~IsParamSet(opts, a.variable))

DistinctVariables(axes) ==
    \A j, k \in DOMAIN axes : j # k => axes[j].variable # axes[k].variable

InjectedVariables ==
    ({opts.rng_switch, opts.rng_no_switch} \ {""})
        \cup Range(opts.dir_params) \cup Range(opts.file_params)

\* The value of the k-th kept axis in the combination number c (from 0), the
\* first axis running fastest
ValueInCombination(k, c) ==
    LET axis == KeptAxes[k]
        digit == (c \div CardinalityProduct(KeptAxes, k - 1)) % Len(axis.values)
    IN IF k <= Len(ParentStepped) THEN Num(axis.values[digit + 1])
       ELSE axis.values[digit + 1]

C4_BatchOverSettingsSucceeds ==
    batch.built => batch.obj.error.type = "none"


\* The combinations of value indices the children returned so far stand for,
\* in emission order: the child's values on the kept axes, one entry per round
\* of the while loop (a round appends one child per split repetition)
Rounds == IF opts.split_reps THEN expt.repetitions ELSE 1

Emitted ==
    [c \in 1..(Len(experiments) \div Rounds) |->
        [k \in DOMAIN KeptAxes |->
            heap[experiments[(c - 1) * Rounds + 1].enumeratedValueSet][k].values[1]]]

\* Every combination of values of the kept axes
Combinations ==
    {[k \in DOMAIN KeptAxes |-> ValueInCombination(k, c)] :
        c \in 0..(CardinalityProduct(KeptAxes, Len(KeptAxes)) - 1)}

\* C19: when the kept axes have pairwise distinct variables, uniqueSettings
\* emits every combination of their values exactly once, stopping when all
\* counters are back at zero; with no kept axis it emits exactly one
\* combination and stops.
C19_OdometerEmitsEachOnce ==
    (DistinctVariables(KeptAxes) /\ us.pc \notin {"idle", "ready"}) =>
        /\ us.pc \in {"loop", "done"}
        /\ \A c1, c2 \in DOMAIN Emitted : Emitted[c1] = Emitted[c2] => c1 = c2
        /\ Range(Emitted) \subseteq Combinations
        /\ us.pc = "done" <=> (Range(Emitted) = Combinations /\ experiments # << >>)
        /\ us.pc = "done" => AllZero(us.counters)

\* The same when no file name is made for a run set of one run (the case in
\* which getUniqueFilename raises)
C19_UnlessFileNameRaises ==
    (opts.file_params = << >> \/ us.n > 1) => C19_OdometerEmitsEachOnce

\* The directories of a path: its parts between "/", without the parts "."
RECURSIVE Directories(_)
Directories(path) ==
    LET cut == {k \in DOMAIN path : path[k] = "/"}
        first == IF cut = {} THEN Len(path) + 1
                 ELSE CHOOSE k \in cut : \A j \in cut : k <= j
        head == SubSeq(path, 1, first - 1)
        rest == IF first > Len(path) THEN << >>
                ELSE Directories(SubSeq(path, first + 1, Len(path)))
    IN IF path = << >> THEN << >>
       ELSE IF head = <<".">> \/ head = << >> THEN rest
       ELSE <<head>> \o rest

\* The values of the axes of child i on the directory parameters of the options
DirNamesOf(i) ==
    LET axes == heap[experiments[i].enumeratedValueSet]
    IN {axes[k].values[1].v : k \in {j \in DOMAIN axes : axes[j].variable \in Range(opts.dir_params)}}

\* C24: the results directory a child was given at enumeration time, and the
\* value of its injected directory parameters, is the directory the script
\* computes as RDIR for the child's task.
C24_ResultsDirIsScriptRdir ==
    (us.pc = "done" /\ batch.built /\ batch.obj.error.type = "none") =>
        \A i \in DOMAIN experiments :
            /\ Directories(experiments[i].results) = Directories(Rdir(batch.obj, opts, i))
            /\ opts.dir_params # << >> =>
                  \E d \in DirNamesOf(i) :
                      Directories(d) = Directories(Rdir(batch.obj, opts, i))

\* The same for parents without excluded axes and with distinct variables
C24_WithoutExcludedAxes ==
    (NoExcludedAxes /\ DistinctVariables(ParentAxes)) => C24_ResultsDirIsScriptRdir

\* The run index as a name embeds it: the digits and blanks that follow the
\* last "-" of the name
EmbeddedIndex(str) ==
    LET rest == SubSeq(str, RFind(str, "-") + 1, Len(str))
        stops == {k \in DOMAIN rest : rest[k] \notin Range(DecStr(1234567890)) \cup {" "}}
        end == IF stops = {} THEN Len(rest)
               ELSE (CHOOSE k \in stops : \A j \in stops : k <= j) - 1
    IN SubSeq(rest, 1, end)

\* The values of the axes of child i on the file parameters of the options
FileNamesOf(i) ==
    LET axes == heap[experiments[i].enumeratedValueSet]
    IN {axes[k].values[1].v : k \in {j \in DOMAIN axes : axes[j].variable \in Range(opts.file_params)}}

\* The positions of the axes of child i on variable p
AxesOf(i, p) ==
    {j \in DOMAIN heap[experiments[i].enumeratedValueSet] :
        heap[experiments[i].enumeratedValueSet][j].variable = p}

\* C25: every child carries exactly one injected value for each declared
\* directory or file parameter, the directory being the child's own results
\* directory, and no two children carry the same file path.
C25_OneInjectedValuePerChild ==
    us.pc = "done" =>
        /\ \A i \in DOMAIN experiments :
              /\ \A p \in Range(opts.dir_params) \cup Range(opts.file_params) :
                    Cardinality(AxesOf(i, p)) = 1
              /\ \A d \in DirNamesOf(i) : d = experiments[i].results
        /\ \A i, k \in DOMAIN experiments :
              (i # k /\ opts.file_params # << >>) => FileNamesOf(i) \cap FileNamesOf(k) = {}

\* The same when each combination gives one child
C25_WithoutSplitRepetitions ==
    (~opts.split_reps \/ expt.repetitions = 1) => C25_OneInjectedValuePerChild

\* The variables of the parent's axes, stepped then enumerated
ParentVariables ==
    [k \in 1..(Len(heap[expt.steppedValueSet]) + Len(heap[expt.enumeratedValueSet])) |->
        IF k <= Len(heap[expt.steppedValueSet])
        THEN heap[expt.steppedValueSet][k].variable
        ELSE heap[expt.enumeratedValueSet][k - Len(heap[expt.steppedValueSet])].variable]

\* The parent has one axis per variable
ParentAxesDistinct ==
    \A j, k \in DOMAIN ParentVariables : j # k => ParentVariables[j] # ParentVariables[k]

\* C29: in every child of uniqueSettings (of a parent with one axis per
\* variable) no variable appears in more than one axis, whatever the parent's
\* axes and the injection options are.
C29_OneAxisPerVariable ==
    ParentAxesDistinct =>
        \A i \in DOMAIN experiments :
            /\ heap[experiments[i].steppedValueSet] = << >>
            /\ \A j \in DOMAIN heap[experiments[i].enumeratedValueSet] :
                  AxesOf(i, heap[experiments[i].enumeratedValueSet][j].variable) = {j}

\* The same when no stepped axis is on a variable the options set, and
\* repetitions are not split while a directory or file parameter is injected
C29_WithoutSteppedInjectedOrSplit ==
    (/\ \A k \in DOMAIN heap[expt.steppedValueSet] :
            ~IsParamSet(opts, heap[expt.steppedValueSet][k].variable)
     /\ \/ ~opts.split_reps
        \/ expt.repetitions = 1
        \/ (opts.dir_params = << >> /\ opts.file_params = << >>))
        => C29_OneAxisPerVariable

\* C16: for a run set of N runs, the child name, the output directory of the
\* run, its unique output file name and the EXPT_ID of its task all embed the
\* run index zero-padded to the number of decimal digits of N.
C16_RunIndexPaddedAlike ==
    us.pc = "done" =>
        \A i \in DOMAIN experiments :
            LET id == ZeroPad(N_digits(Len(experiments)), i)
            IN /\ EmbeddedIndex(experiments[i].name) = id
               /\ opts.sep_expt_dirs => EmbeddedIndex(experiments[i].results) = id
               /\ opts.file_params # << >> =>
                     \E f \in FileNamesOf(i) : EmbeddedIndex(f) = id
               /\ (batch.built /\ batch.obj.error.type = "none") =>
                     GetExptIDsh(batch.obj, i) = experiments[i].name

--------------------------------------------------------------------------
(* Claims about metrics (SpecMetrics) *)

\* C12: every Experiment has as many metric labels as metrics, in every
\* reachable state: after construction and after any sequence of addMetric,
\* clearMetrics, withParameterSettings and uniqueSettings on it, its parent or
\* its siblings.
C12_MetricsMatchLabels ==
    \A k \in ExperimentIds :
        Len(heap[ExperimentAt(k).metrics]) = Len(heap[ExperimentAt(k).metricLabels])

\* The lists an Experiment holds, as they read
ListsOf(k) ==
    LET e == ExperimentAt(k)
    IN [metrics |-> heap[e.metrics], metricLabels |-> heap[e.metricLabels],
        steppedValueSet |-> heap[e.steppedValueSet],
        enumeratedValueSet |-> heap[e.enumeratedValueSet]]

\* A call that mutates Experiment k alone
Mutates(k) ==
    \/ AddMetric(k, "a")
    \/ AddEnumeratedValue(k, "q", Num(1))
    \/ AddSteppedValueTo(k, "r", 1, 1, 1)

\* C27: Experiments share no mutable state: addMetric, addEnumeratedValue or
\* addSteppedValue on one Experiment leaves the metrics, metric labels and
\* axes of every other Experiment (parent, sibling or any other) unchanged.
C27_MutationStaysInOneExperiment ==
    [][\A k \in ExperimentIds :
          Mutates(k) => \A j \in ExperimentIds \ {k} : ListsOf(j)' = ListsOf(j)]_vars

\* What the code keeps of it: a mutation reaches another Experiment only
\* through a list object the two hold in common
C27_OnlyThroughSharedLists ==
    [][\A k \in ExperimentIds :
          Mutates(k) =>
              \A j \in ExperimentIds \ {k} :
                  LET a == ExperimentAt(k)
                      b == ExperimentAt(j)
                  IN /\ b.metrics # a.metrics => heap'[b.metrics] = heap[b.metrics]
                     /\ b.metricLabels # a.metricLabels
                            => heap'[b.metricLabels] = heap[b.metricLabels]
                     /\ b.steppedValueSet # a.steppedValueSet
                            => heap'[b.steppedValueSet] = heap[b.steppedValueSet]
                     /\ b.enumeratedValueSet # a.enumeratedValueSet
                            => heap'[b.enumeratedValueSet] = heap[b.enumeratedValueSet]]_vars

\* C26: a call of finallySaveParamMetrics keeps the final code that was there
\* before it as part of the final code, and a call on an Experiment that has
\* the saving code already leaves the Experiment unchanged.
C26_FinalCodeAddedOnce ==
    [][\A k \in ExperimentIds :
          SaveParamMetricsFinally(k) =>
              /\ Range(ExperimentAt(k).final) \subseteq Range(ExperimentAt(k).final')
              /\ ExperimentAt(k).addedFinalParametrics => UNCHANGED vars]_vars

\* The second call leaves the Experiment unchanged
C26_SecondCallChangesNothing ==
    [][\A k \in ExperimentIds :
          (SaveParamMetricsFinally(k) /\ ExperimentAt(k).addedFinalParametrics)
              => UNCHANGED vars]_vars

--------------------------------------------------------------------------
(* Claims about the scripts (SpecScript) *)

\* The run count N and the task limit L (0: no limit) of the run
RunCount == Len(experiments)
TaskLimit == opts.task_limit

\* The job array and the sleeper the claim expects for N runs and limit L
ArrayAsLimited ==
    /\ grid.job.array = (IF TaskLimit >= 1 /\ TaskLimit < RunCount THEN TaskLimit
                         ELSE RunCount)
    /\ grid.sleeper.written <=> (TaskLimit >= 1 /\ TaskLimit < RunCount)

\* C13: for every run count N >= 1 the script is generated; with limit L >= N
\* (or no limit) its job array covers tasks 1..N and there is no sleeper, with
\* 1 <= L < N the array is capped at 1..L and a sleeper is generated.
C13_ArrayCappedBySleeper ==
    /\ batch.built => batch.obj.error.type = "none"
    /\ grid.pc # "idle" => ArrayAsLimited

\* The same for N >= 2 only
C13_FromTwoRuns ==
    RunCount >= 2 =>
        /\ batch.built => batch.obj.error.type = "none"
        /\ grid.pc # "idle" => ArrayAsLimited

\* The run through the sleeper is over: every wave submitted, nothing waiting
SleeperOver == grid.pc = "end" /\ grid.accepted = {} /\ grid.queue = {}

\* C14: in a run through the sleeper (1 <= L < N) every task that ran an
\* experiment ran the one with index task id + wave * L, an index in 1..N, no
\* index is run by two (wave, task) pairs, every task that left at the guard
\* had an index above N, every task with an index above N left at the guard,
\* and when waves 0 .. ceil(N/L)-1 are over every index in 1..N has been run.
C14_WavesCoverRunsOnce ==
    grid.sleeper.written =>
        /\ \A r \in grid.ran :
              /\ r[3] = r[2] + r[1] * TaskLimit
              /\ r[3] \in 1..RunCount
              /\ r[2] \in 1..TaskLimit
        /\ \A r1, r2 \in grid.ran : r1[3] = r2[3] => r1 = r2
        /\ \A x \in grid.exited : x[2] + x[1] * TaskLimit > RunCount
        /\ SleeperOver =>
              /\ {r[3] : r \in grid.ran} = 1..RunCount
              /\ {r[1] : r \in grid.ran} \cup {x[1] : x \in grid.exited}
                    = 0..(CeilDiv(RunCount, TaskLimit) - 1)

\* C14 witness: a run of 5 experiments in waves of 2 is over, and the third
\* wave's second task has left at the guard
C14_Witness ==
    /\ SleeperOver
    /\ grid.sleeper.written
    /\ RunCount = 5 /\ TaskLimit = 2
    /\ <<2, 2>> \in grid.exited
    /\ <<2, 1, 5>> \in grid.ran

\* C15: never are tasks of two different waves queued or running at the same
\* time.
C15_WavesSerialized ==
    \A t1, t2 \in grid.queue : t1.wave = t2.wave

\* The offsets of waves 0 .. ceil(N/L)-1, in increasing order
WaveOffsets == [k \in 1..CeilDiv(RunCount, TaskLimit) |-> (k - 1) * TaskLimit]

\* C30: with a scheduler that lets every queued job go and a queue that holds
\* no other job of the user, a started sleeper comes to its end, and has then
\* submitted the waves 0 .. ceil(N/L)-1, each once, in increasing order of
\* offset; before that it has submitted a beginning of that list.
C30_SleeperSubmitsAllWavesAndEnds ==
    /\ [](grid.sleeper.written =>
            /\ Len(grid.submitted) <= Len(WaveOffsets)
            /\ grid.submitted = SubSeq(WaveOffsets, 1, Len(grid.submitted))
            /\ grid.pc = "end" => grid.submitted = WaveOffsets)
    /\ ((grid.pc = "submit" /\ grid.submitted = << >>)
            ~> (grid.pc = "end" /\ grid.accepted = {} /\ grid.queue = {}))

\* C30 witness: the sleeper has ended after three waves of two for five runs
C30_Witness ==
    /\ grid.pc = "end"
    /\ grid.sleeper.written
    /\ RunCount = 5 /\ TaskLimit = 2
    /\ grid.submitted = <<0, 2, 4>>

\* C18: the saved scripts are in the dialect the user chose: Sun Grid Engine
\* (with a qsub/qstat sleeper) when the SGE option was given on the command
\* line, SLURM (with an sbatch/squeue sleeper) otherwise.
C18_DialectFollowsOption ==
    grid.pc \notin {"idle", "unrecognized"} =>
        LET chosen == IF "SGE" \in opts.assigned THEN "SGE" ELSE "SLURM"
        IN /\ opts.cluster = chosen
           /\ grid.job.dialect = chosen
           /\ grid.sleeper.written =>
                 /\ grid.sleeper.sub = (IF chosen = "SGE" THEN "qsub" ELSE "sbatch")
                 /\ grid.sleeper.qlist = (IF chosen = "SGE" THEN "qstat" ELSE "squeue")

--------------------------------------------------------------------------
(* Claims about Sample bounds (SpecSample) *)

\* The bound of the given kind of Sample s
BoundOf(s, kind) == IF kind = "min" THEN samples[s].minimum ELSE samples[s].maximum

\* The Sample that the bound of the given kind of s refers to, or 0
Referenced(s, kind) ==
    LET is_param == IF kind = "min" THEN samples[s].min_is_param
                    ELSE samples[s].max_is_param
    IN IF is_param /\ BoundOf(s, kind).t = "sample" THEN BoundOf(s, kind).v ELSE 0

\* The Sample reached from s after n references through bounds of one kind, or 0
RECURSIVE Follow(_, _, _)
Follow(s, kind, n) ==
    IF n = 0 \/ s = 0 THEN s ELSE Follow(Referenced(s, kind), kind, n - 1)

\* The bound of the given kind of s lies on a reference cycle, and no Sample
\* on the cycle holds a cached draw
OnOpenCycle(s, kind) ==
    \E n \in 1..NSamples :
        /\ Follow(s, kind, n) = s
        /\ \A k \in 0..(n - 1) : ~samples[Follow(s, kind, k)].sampled

NoRepeat(seq) == \A i, j \in 1..Len(seq) : seq[i] = seq[j] => i = j

\* C7: resolving a bound that lies on a reference cycle through bounds of the
\* same kind, with no cached draw on the cycle, never returns a value and never
\* enters a Sample twice: every frame either goes one Sample further or ends the
\* process with the circular-reference error, so it ends in that error after at
\* most as many frames as there are Samples.
C7_CycleEndsInCircularError ==
    (/\ call.pc \in {"running", "returning", "returned", "exit"}
     /\ call.op \in {"minimumValue", "maximumValue"}
     /\ OnOpenCycle(call.of, call.kind))
    => /\ call.pc \in {"running", "exit"}
       /\ NoRepeat(stack)
       /\ call.pc = "running"
            => ResolveBound(samples, stack[Len(stack)], call.kind).act
                 \in {"descend", "circular"}

\* C7 witness: minimumValue on a cycle through all the Samples has ended in the
\* circular-reference exit with every Sample of the cycle on the stack
C7_Witness ==
    /\ call.pc = "exit"
    /\ call.op = "minimumValue"
    /\ OnOpenCycle(call.of, "min")
    /\ Len(stack) = NSamples
    /\ NSamples >= 3

\* The value that resolving the bound of the given kind of s yields when the
\* chain of references is followed to its end
RECURSIVE ChainValue(_, _, _)
ChainValue(s, kind, fuel) ==
    LET t == Referenced(s, kind)
    IN IF t = 0 THEN BoundOf(s, kind)
       ELSE IF samples[t].sampled THEN samples[t].last_sample
       ELSE IF fuel = 0 THEN None
       ELSE ChainValue(t, kind, fuel - 1)

\* C8: whenever minimumValue / maximumValue of a Sample whose bound refers to
\* another Sample returns, the value returned is the referenced Sample's cached
\* draw if that Sample has been drawn since its last newSample(); if it has
\* not, the cached draw is not used and the value is what the referenced
\* Sample's own bound resolves to.
C8_ReferencingBoundReturnsCachedDraw ==
    (/\ call.pc = "returned"
     /\ call.op \in {"minimumValue", "maximumValue"}
     /\ Referenced(call.of, call.kind) # 0)
    => LET t == Referenced(call.of, call.kind)
       IN IF samples[t].sampled
          THEN call.result = samples[t].last_sample
          ELSE call.result = ChainValue(t, call.kind, NSamples)

\* C8 witness: maximumValue of a Sample whose maximum refers to another Sample
\* has returned that Sample's cached draw, a number drawn by sample()
C8_Witness ==
    /\ call.pc = "returned"
    /\ call.op = "maximumValue"
    /\ Referenced(call.of, "max") \notin {0, call.of}
    /\ samples[Referenced(call.of, "max")].sampled
    /\ call.result = samples[Referenced(call.of, "max")].last_sample
    /\ call.result.t = "num"

\* After newSample() the stale draw is still stored but a resolution has
\* returned the referenced Sample's own bound instead
C8_AfterNewSample ==
    /\ call.pc = "returned"
    /\ call.op = "maximumValue"
    /\ Referenced(call.of, "max") \notin {0, call.of}
    /\ ~samples[Referenced(call.of, "max")].sampled
    /\ samples[Referenced(call.of, "max")].last_sample.t = "num"
    /\ call.result.t = "str"

\* A call of minimumValue, maximumValue or sample is under way
InResolution == call.pc \in {"running", "returning"}

\* A resolution has handed a value back to code outside minimumValue /
\* maximumValue: to the caller, or to sample() between its two resolutions
ValueHandedBack ==
    \/ call.pc = "returned" /\ call.op # "newSample"
    \/ call.pc = "returning" /\ stack = << >>

\* C20: every call of minimumValue, maximumValue or sample ends (by returning,
\* by an exception or by the exit on a circular reference), whatever the
\* references and cached draws, and whenever a resolution has handed a value
\* back no Sample is tagged.
C20_ResolutionEndsAndClearsTags ==
    /\ [](ValueHandedBack => \A s \in SampleIds : ~samples[s].tagged)
    /\ InResolution ~> ~InResolution

\* C20 witness: minimumValue of Sample 1 has returned a value through the chain
\* 1 -> 2 -> 3 of Samples not drawn, and no Sample is tagged
C20_Witness ==
    /\ call.pc = "returned" /\ call.op = "minimumValue" /\ call.of = 1
    /\ Referenced(1, "min") = 2 /\ Referenced(2, "min") = 3 /\ Referenced(3, "min") = 0
    /\ ~samples[2].sampled /\ ~samples[3].sampled
    /\ call.result = Str(<<"0">>)
    /\ \A s \in SampleIds : ~samples[s].tagged

--------------------------------------------------------------------------
(* Claims about withNSamples (SpecMonte) *)

\* withNSamples has ended by an exception or by the exit of the process
NSamplesFailed == call.pc \notin {"idle", "running", "returning", "returned"}

\* sample() of Sample s of the running iteration has returned
DrawnInIteration(s) ==
    \/ ws.loop = "sample" /\ (s < ws.next - 1 \/ (s = ws.next - 1 /\ call.pc = "returned"))
    \/ ws.loop = "settings" /\ (s < Len(samples) \/ call.pc = "returned")

\* The axes of child k on the parameter of Sample s
AxesOn(k, s) ==
    LET axes == heap[experiments[k].enumeratedValueSet]
    IN {j \in DOMAIN axes : axes[j].variable = Variable(s)}

\* What the claim says of an iteration: during the draws exactly the Samples
\* whose sample() has returned hold a draw; every child built has one
\* single-valued axis per Sample; the child just built holds the values the
\* Samples were left with by this iteration's draws
IterationsAsClaimed ==
    /\ ws.loop \in {"sample", "settings"} =>
          \A s \in SampleIds : samples[s].sampled <=> DrawnInIteration(s)
    /\ Len(experiments) <= ws.n
    /\ \A k \in DOMAIN experiments :
          /\ heap[experiments[k].steppedValueSet] = << >>
          /\ \A s \in SampleIds :
                /\ Cardinality(AxesOn(k, s)) = 1
                /\ \A j \in AxesOn(k, s) :
                      /\ Len(heap[experiments[k].enumeratedValueSet][j].values) = 1
                      /\ (k = Len(experiments) /\ call.pc = "idle") =>
                            heap[experiments[k].enumeratedValueSet][j].values[1]
                               = samples[s].last_sample

\* C17: withNSamples(samples, n) returns exactly n children; in each iteration
\* every cached draw is invalidated before any Sample is drawn, every Sample is
\* then drawn exactly once, and the child has exactly one single-valued
\* enumerated axis per sampled parameter, holding that iteration's draw.
C17_NSamplesGiveNChildren ==
    /\ ~NSamplesFailed
    /\ ws.loop = "done" => Len(experiments) = ws.n
    /\ IterationsAsClaimed

\* The iterations are as claimed for as long as nothing is raised
C17_WhileNothingRaised ==
    ~NSamplesFailed => (IterationsAsClaimed /\ (ws.loop = "done" => Len(experiments) = ws.n))

\* C21: sample() of a one-of Sample always returns a member of its option
\* list; no draw falls outside the list or fails.
C21_OneOfDrawsAnOption ==
    (call.op = "sample" /\ call.of \in SampleIds /\ samples[call.of].one_of) =>
        /\ call.pc # "IndexError"
        /\ call.pc = "returned" => call.result \in Range(samples[call.of].options)

\* C22: whenever the minimum and the maximum of a Sample resolve to the same
\* value, sample() returns that value.
C22_EqualBoundsGiveThatValue ==
    (call.pc = "returned" /\ call.op = "sample") =>
        LET lo == ChainValue(call.of, "min", NSamples)
            hi == ChainValue(call.of, "max", NSamples)
        IN (/\ ~samples[call.of].one_of
            /\ IntRaises(lo) = "none" /\ IntRaises(hi) = "none"
            /\ IntOf(lo) = IntOf(hi))
           => /\ IntRaises(call.result) = "none"
              /\ IntOf(call.result) = IntOf(lo)

\* The value child k carries for the parameter of Sample s
DrawnValue(k, s) ==
    LET axes == heap[experiments[k].enumeratedValueSet]
    IN axes[CHOOSE j \in DOMAIN axes : axes[j].variable = Variable(s)].values[1]

\* Sample a has a range whose one bound is Sample b, itself a range
BoundedAbove(a, b) ==
    /\ ~samples[a].one_of /\ ~samples[b].one_of
    /\ samples[a].maximum = SampleRef(b)

BoundedBelow(a, b) ==
    /\ ~samples[a].one_of /\ ~samples[b].one_of
    /\ samples[a].minimum = SampleRef(b)

\* C28: in every child of withSamples, a Sample whose maximum is another
\* Sample holds a value no greater than that Sample's value in the same child,
\* and one whose minimum is another Sample a value no less, in whichever order
\* the two stand in the sample list.
C28_CorrelatedBoundsHoldInChild ==
    \A k \in DOMAIN experiments : \A a, b \in SampleIds :
        /\ BoundedAbove(a, b) =>
              /\ DrawnValue(k, a).t = "num" /\ DrawnValue(k, b).t = "num"
              /\ DrawnValue(k, a).v <= DrawnValue(k, b).v
        /\ BoundedBelow(a, b) =>
              /\ DrawnValue(k, a).t = "num" /\ DrawnValue(k, b).t = "num"
              /\ DrawnValue(k, a).v >= DrawnValue(k, b).v

\* The bounds hold when the Sample referred to stands earlier in the list and
\* the two bounds of the referring Sample differ
C28_WhenReferentStandsEarlier ==
    \A k \in DOMAIN experiments : \A a, b \in SampleIds :
        (b < a /\ samples[a].minimum # samples[a].maximum
               /\ DrawnValue(k, a).t = "num" /\ DrawnValue(k, b).t = "num") =>
            /\ BoundedAbove(a, b) => DrawnValue(k, a).v <= DrawnValue(k, b).v
            /\ BoundedBelow(a, b) => DrawnValue(k, a).v >= DrawnValue(k, b).v

======================================================================
